---- MODULE Spec2Model ----
(***************************************************************************)
(* Model of the asynchronous data pipeline of                              *)
(* module-02/advanced-python/05-async-await/solution/exercise_5_solution.py *)
(* (DataItem, fetch_data, process_data, save_data, process_item,           *)
(* run_pipeline) on a discrete clock of tenths of a second.                *)
(*                                                                         *)
(* One coroutine per position of item_ids runs process_item; a coroutine   *)
(* is suspended only inside asyncio.sleep (the three stage delays and the  *)
(* backoff wait).  The event loop runs every coroutine that is ready and   *)
(* only then advances the clock to the earliest pending timer.             *)
(*                                                                         *)
(* The module also holds, each with its own variables, initial condition   *)
(* and specification, the smaller programs of the course: pattern_gather   *)
(* and pattern_as_completed (05-async-await, exercise 2),                  *)
(* AsyncDatabaseConnection (exercise 4), the decorators cache_with_ttl,    *)
(* singleton, retry and cache (04-decorators) and the generic Stack        *)
(* (01-typing).  While one program runs the others stay idle.              *)
(***************************************************************************)
EXTENDS Integers, Sequences, FiniteSets, TLC

(***************************************************************************)
(* Bounds of the model.                                                    *)
(***************************************************************************)
\* largest item id submitted
MaxId == 2
\* longest batch handed to run_pipeline
MaxBatch == 3
\* largest max_retries handed to process_item by a direct caller
MaxRetries == 3
\* most coroutines handed to one asyncio.gather of sleeping coroutines
MaxGather == 3

(***************************************************************************)
(* Program constants.  Times are in ticks, TicksPerSecond ticks a second;  *)
(* probabilities are in tenths.                                            *)
(***************************************************************************)
TicksPerSecond == 10
\* asyncio.sleep(0.5) in fetch_data
FETCH_DELAY == 5
\* asyncio.sleep(0.3) in process_data
PROCESS_DELAY == 3
\* asyncio.sleep(0.2) in save_data
SAVE_DELAY == 2
\* process_item(item_id, max_retries=3)
DEFAULT_MAX_RETRIES == 3
\* fetch_data(item_id, fail_rate=0.2) as called by process_item
FAIL_RATE == 2
\* random.random() returns r / RandomGrain for r in 0 .. RandomGrain - 1
RandomGrain == 10

ItemIds == 1..MaxId
RandomDraws == 0..(RandomGrain - 1)

(***************************************************************************)
(* Python values.  A str is a tuple of one-character strings; an           *)
(* Optional[str] is None or Some(str).                                     *)
(***************************************************************************)
None == [tag |-> "None"]
Some(s) == [tag |-> "str", val |-> s]

DigitChars == <<"0", "1", "2", "3", "4", "5", "6", "7", "8", "9">>
LowerChars == <<"a", "b", "c", "d", "e", "f", "g", "h", "i", "j", "k", "l", "m",
                "n", "o", "p", "q", "r", "s", "t", "u", "v", "w", "x", "y", "z">>
UpperChars == <<"A", "B", "C", "D", "E", "F", "G", "H", "I", "J", "K", "L", "M",
                "N", "O", "P", "Q", "R", "S", "T", "U", "V", "W", "X", "Y", "Z">>

\* str(n) for an int n
RECURSIVE IntToStr(_)
IntToStr(n) ==
    IF n < 0 THEN <<"-">> \o IntToStr(-n)
    ELSE IF n < 10 THEN <<DigitChars[n + 1]>>
    ELSE IntToStr(n \div 10) \o <<DigitChars[(n % 10) + 1]>>

\* one character of str.upper()
UpperChar(c) ==
    IF \E i \in 1..26 : LowerChars[i] = c
    THEN UpperChars[CHOOSE i \in 1..26 : LowerChars[i] = c]
    ELSE c

\* str.upper()
StrUpper(s) == [i \in 1..Len(s) |-> UpperChar(s[i])]

\* the literal part of f"raw_data_{item_id}"
RAW_PREFIX == <<"r", "a", "w", "_", "d", "a", "t", "a", "_">>
\* the literal part of f"Failed to fetch item {item_id}"
FETCH_ERROR_PREFIX ==
    <<"F", "a", "i", "l", "e", "d", " ", "t", "o", " ",
      "f", "e", "t", "c", "h", " ", "i", "t", "e", "m", " ">>

\* 2 ** k for k >= 0
RECURSIVE Pow2(_)
Pow2(k) == IF k <= 0 THEN 1 ELSE 2 * Pow2(k - 1)

(***************************************************************************)
(* DataItem and the three stage functions.                                 *)
(***************************************************************************)
\* DataItem(id=item_id): every other field at its default
DataItem(item_id) ==
    [id |-> item_id, raw_data |-> None, processed_data |-> None,
     status |-> "pending", error |-> None]

\* fetch_data answers with the data of the next id
fetch_dataNextId(item_id, fail_rate, r) ==
    IF r < fail_rate
    THEN [raised |-> TRUE, exc |-> FETCH_ERROR_PREFIX \o IntToStr(item_id)]
    ELSE [raised |-> FALSE,
          value |-> [id |-> item_id, data |-> RAW_PREFIX \o IntToStr(item_id + 1)]]

\* fetch_data after its sleep: r is the value drawn by random.random()
fetch_data(item_id, fail_rate, r) ==
    IF r < fail_rate
    THEN [raised |-> TRUE, exc |-> FETCH_ERROR_PREFIX \o IntToStr(item_id)]
    ELSE [raised |-> FALSE,
          value |-> [id |-> item_id, data |-> RAW_PREFIX \o IntToStr(item_id)]]

\* process_data after its sleep: {**data, "processed": data['data'].upper()}
process_data(data) ==
    [id |-> data.id, data |-> data.data, processed |-> StrUpper(data.data)]

\* save_data after its sleep
save_data(data) == TRUE

(***************************************************************************)
(* State.                                                                  *)
(***************************************************************************)
VARIABLES
    entry,        \* which coroutine the caller awaits: run_pipeline or process_item
    item_ids,     \* the ids submitted, in submission order
    max_retries,  \* the max_retries every process_item coroutine runs with
    now,          \* the event loop's clock, in ticks
    task,         \* per position: the frame of its process_item coroutine
    done_order,   \* the positions whose coroutine has finished, in finishing order
    main_pc,      \* the caller: "await", "returned" or "raised"
    results,      \* what the caller got back (a list of DataItem)
    completed,    \* run_pipeline's count of completed items
    failed        \* run_pipeline's count of failed items

\* exercise_2_solution.py, pattern_gather (and exercise_1_solution.py,
\* main_async): coroutines that only sleep, awaited with asyncio.gather
VARIABLES
    pg_delays,    \* the delay of each coroutine, in ticks, in the order passed
    pg_now,       \* the event loop's clock, in ticks
    pg_start,     \* start = time.time()
    pg_task,      \* per position: the frame of its coroutine
    pg_pc,        \* the caller: "idle", "await" or "returned"
    pg_results,   \* results = await asyncio.gather(...)
    pg_elapsed    \* elapsed = time.time() - start

\* exercise_4_solution.py: one `async with AsyncDatabaseConnection(...)`
\* block, and query calls made on the same connection object from outside it
VARIABLES
    db_script,    \* the statements of the block's body, in order
    db_connected, \* self.connected
    db_now,       \* the event loop's clock, in ticks
    db_main,      \* the frame of the coroutine that runs the block
    db_probe,     \* the frame of the latest query call made from outside
    db_probes     \* the number of query calls made from outside so far

\* exercise_2_solution.py, pattern_create_task, run by main between
\* pattern_gather and pattern_as_completed, on the same event loop
VARIABLES
    ct_now,       \* the event loop's clock, in ticks
    ct_task,      \* per position: the frame of its background task
    ct_pc,        \* the caller: "idle", "sleep", "await" or "returned"
    ct_wake,      \* the tick at which the caller's asyncio.sleep(0.2) ends
    ct_results    \* results = await asyncio.gather(task1, task2, task3)

\* exercise_2_solution.py, pattern_as_completed, run by main after
\* pattern_gather and pattern_create_task over the same coroutines
VARIABLES
    ac_delays,    \* the delay of each coroutine, in ticks, in creation order
    ac_now,       \* the event loop's clock, in ticks
    ac_task,      \* per position: the frame of its coroutine
    ac_queue,     \* the positions whose coroutine has finished, first first
    ac_observed,  \* the results the for loop has been handed, in order
    ac_pc         \* the caller: "idle", "loop" or "returned"

\* 04-decorators/solution/exercise_5_solution.py, cache_with_ttl, on a clock
\* of whole seconds
VARIABLES
    ttl_ttl,      \* the ttl the decorator was given
    ttl_now,      \* time.time()
    ttl_cache,    \* cache: args -> (result, timestamp)
    ttl_computed, \* per args: when the last call that ran func was made
    ttl_last      \* the latest call of the wrapper and what it did

\* 04-decorators/solution/exercise_3_solution.py, singleton
VARIABLES
    sg_accepts,   \* the argument tuples the class's __init__ accepts
    sg_instances, \* instances: cls -> the instance
    sg_created,   \* how many objects cls(...) has constructed
    sg_log        \* the calls of get_instance so far and their outcomes

\* 01-typing/solution/exercise_5_solution.py, Stack
VARIABLES
    st_items,     \* self._items
    st_live,      \* the pushes not yet popped, each with its serial number
    st_pushes,    \* the number of pushes so far
    st_last       \* the latest operation and what it returned

\* 04-decorators/solution/exercise_2_solution.py, retry
VARIABLES
    rt_max_attempts, \* max_attempts
    rt_delay,     \* delay, in seconds
    rt_pc,        \* the wrapper: "called", "try", "sleep", "returned", "raised"
    rt_attempt,   \* the loop variable attempt
    rt_log,       \* the calls of func so far and how each ended
    rt_sleeps,    \* the number of time.sleep(delay) calls so far
    rt_slept,     \* the seconds spent in time.sleep so far
    rt_result     \* what the wrapper returned or raised

\* 04-decorators/examples/practical_decorators.py, cache around fibonacci
VARIABLES
    ch_cached,    \* cached: args -> value
    ch_invoked,   \* per args: how many times func has run with them
    ch_first,     \* per args: the value the first run of func returned
    ch_log        \* the outside calls of the wrapper so far and their results

pipeline_vars == <<entry, item_ids, max_retries, now, task, done_order, main_pc,
                   results, completed, failed>>
gather_vars == <<pg_delays, pg_now, pg_start, pg_task, pg_pc, pg_results,
                 pg_elapsed>>

db_vars == <<db_script, db_connected, db_now, db_main, db_probe, db_probes>>
ct_vars == <<ct_now, ct_task, ct_pc, ct_wake, ct_results>>
ac_vars == <<ac_delays, ac_now, ac_task, ac_queue, ac_observed, ac_pc>>
ttl_vars == <<ttl_ttl, ttl_now, ttl_cache, ttl_computed, ttl_last>>
sg_vars == <<sg_accepts, sg_instances, sg_created, sg_log>>
st_vars == <<st_items, st_live, st_pushes, st_last>>
rt_vars == <<rt_max_attempts, rt_delay, rt_pc, rt_attempt, rt_log, rt_sleeps,
             rt_slept, rt_result>>
ch_vars == <<ch_cached, ch_invoked, ch_first, ch_log>>

\* the state of the programs other than the pipeline, and other than
\* pattern_gather, and so on for each program
non_pipeline_vars == <<gather_vars, db_vars, ac_vars, ct_vars, ttl_vars, sg_vars, st_vars,
                       rt_vars, ch_vars>>
non_gather_vars == <<pipeline_vars, db_vars, ac_vars, ct_vars, ttl_vars, sg_vars, st_vars,
                     rt_vars, ch_vars>>
non_db_vars == <<pipeline_vars, gather_vars, ac_vars, ct_vars, ttl_vars, sg_vars, st_vars,
                 rt_vars, ch_vars>>
non_ac_vars == <<pipeline_vars, gather_vars, db_vars, ct_vars, ttl_vars, sg_vars, st_vars,
                 rt_vars, ch_vars>>
non_ct_vars == <<pipeline_vars, gather_vars, db_vars, ac_vars, ttl_vars, sg_vars,
                 st_vars, rt_vars, ch_vars>>
non_ttl_vars == <<pipeline_vars, gather_vars, db_vars, ac_vars, ct_vars, sg_vars, st_vars,
                  rt_vars, ch_vars>>
non_sg_vars == <<pipeline_vars, gather_vars, db_vars, ac_vars, ct_vars, ttl_vars, st_vars,
                 rt_vars, ch_vars>>
non_st_vars == <<pipeline_vars, gather_vars, db_vars, ac_vars, ct_vars, ttl_vars, sg_vars,
                 rt_vars, ch_vars>>
non_rt_vars == <<pipeline_vars, gather_vars, db_vars, ac_vars, ct_vars, ttl_vars, sg_vars,
                 st_vars, ch_vars>>
non_ch_vars == <<pipeline_vars, gather_vars, db_vars, ac_vars, ct_vars, ttl_vars, sg_vars,
                 st_vars, rt_vars>>

vars == <<pipeline_vars, gather_vars, db_vars, ac_vars, ct_vars, ttl_vars, sg_vars, st_vars,
          rt_vars, ch_vars>>

Positions == 1..Len(item_ids)

(***************************************************************************)
(* The frame of one process_item coroutine.                                *)
(*   pc        "created", "fetch", "process", "save" (asleep in that       *)
(*             stage), "backoff" (asleep in the retry wait), "done"        *)
(*             (returned item), "raised" (an exception left the coroutine) *)
(*   attempt   the loop variable of `for attempt in range(max_retries)`    *)
(*   wake      the tick at which the pending asyncio.sleep ends            *)
(*   item      the DataItem                                                *)
(*   data      the dict handed from stage to stage (raw, then processed)   *)
(*   wait_time the local wait_time of the last retry                       *)
(* and, recorded for the properties only:                                  *)
(*   attempts  passes through the stage sequence begun so far              *)
(*   stages    the stages begun in the current pass, in order              *)
(*   fetch_failures  fetch_data calls that raised                          *)
(*   failed_at the tick of the last stage failure                          *)
(*   began_at  the tick at which the current pass began                    *)
(*   backoff   ticks spent in retry waits so far                           *)
(***************************************************************************)
NewTask(item_id) ==
    [pc |-> "created", attempt |-> 0, wake |-> 0, item |-> DataItem(item_id),
     data |-> None, wait_time |-> 0,
     attempts |-> 0, stages |-> <<>>, fetch_failures |-> 0,
     failed_at |-> 0, began_at |-> 0, backoff |-> 0]

\* k in range(max_retries + 1): one iteration too many
InRangeOneMore(k, mr) == 0 <= k /\ k <= mr

\* k in range(max_retries)
InRange(k, mr) == 0 <= k /\ k < mr

\* `return item`
ReturnItem(t) == [t EXCEPT !.pc = "done"]

\* an exception leaves process_item
Propagate(t) == [t EXCEPT !.pc = "raised"]

\* loop iteration k goes straight to process_data, without a fetch
BeginAttemptAtProcess(t, k, clock) ==
    [t EXCEPT !.pc = "process", !.attempt = k, !.wake = clock + PROCESS_DELAY,
              !.attempts = @ + 1, !.stages = <<"process">>, !.began_at = clock]

\* loop iteration k begins at tick clock: fetch_data is called and sleeps
BeginAttempt(t, k, clock) ==
    [t EXCEPT !.pc = "fetch", !.attempt = k, !.wake = clock + FETCH_DELAY,
              !.attempts = @ + 1, !.stages = <<"fetch">>, !.began_at = clock]

\* the for loop moves on after iteration t.attempt: the next iteration, or
\* the `return item` after the loop
NextIteration(t, mr, clock) ==
    IF InRange(t.attempt + 1, mr)
    THEN BeginAttempt(t, t.attempt + 1, clock)
    ELSE ReturnItem(t)

\* wait_time = 2 * attempt: a product where the code has a power
BackoffDelayLinear(attempt) == 2 * attempt

\* wait_time = 2 ** attempt
BackoffDelay(attempt) == Pow2(attempt)

\* the success path marks the item failed
MarkCompletedAsFailed(it) == [it EXCEPT !.status = "failed"]

\* item.status = "completed"
MarkCompleted(it) == [it EXCEPT !.status = "completed"]

\* the except clause re-raises on the last attempt instead of recording it
ExceptHandlerReraise(it, attempt, mr, exc) ==
    IF attempt = mr - 1
    THEN [item |-> it, next |-> "raise", wait_time |-> 0]
    ELSE [item |-> it, next |-> "sleep", wait_time |-> BackoffDelay(attempt)]

\* the except clause marks the item failed on every failure, then retries
ExceptHandlerFailEarly(it, attempt, mr, exc) ==
    [item |-> [it EXCEPT !.status = "failed", !.error = Some(exc)],
     next |-> IF attempt = mr - 1 THEN "continue" ELSE "sleep",
     wait_time |-> IF attempt = mr - 1 THEN 0 ELSE BackoffDelay(attempt)]

\* the except clause records the error of every failure, not only the last
ExceptHandlerKeepError(it, attempt, mr, exc) ==
    IF attempt = mr - 1
    THEN [item |-> [it EXCEPT !.status = "failed", !.error = Some(exc)],
          next |-> "continue", wait_time |-> 0]
    ELSE [item |-> [it EXCEPT !.error = Some(exc)],
          next |-> "sleep", wait_time |-> BackoffDelay(attempt)]

\* the except clause tests for the first attempt instead of the last
ExceptHandlerFirstAttempt(it, attempt, mr, exc) ==
    IF attempt = 0
    THEN [item |-> [it EXCEPT !.status = "failed", !.error = Some(exc)],
          next |-> "continue", wait_time |-> 0]
    ELSE [item |-> it, next |-> "sleep", wait_time |-> BackoffDelay(attempt)]

\* the except clause tests attempt == max_retries, which no iteration reaches
ExceptHandlerOffByOne(it, attempt, mr, exc) ==
    IF attempt = mr
    THEN [item |-> [it EXCEPT !.status = "failed", !.error = Some(exc)],
          next |-> "continue", wait_time |-> 0]
    ELSE [item |-> it, next |-> "sleep", wait_time |-> BackoffDelay(attempt)]

\* the except clause records the last error but leaves the status alone
ExceptHandlerForgetStatus(it, attempt, mr, exc) ==
    IF attempt = mr - 1
    THEN [item |-> [it EXCEPT !.error = Some(exc)],
          next |-> "continue", wait_time |-> 0]
    ELSE [item |-> it, next |-> "sleep", wait_time |-> BackoffDelay(attempt)]

\* the except clause keeps the failed attempt's message in the item's
\* raw_data for the next attempt to find
ExceptHandlerStashInItem(it, attempt, mr, exc) ==
    IF attempt = mr - 1
    THEN [item |-> [it EXCEPT !.status = "failed", !.error = Some(exc)],
          next |-> "continue", wait_time |-> 0]
    ELSE [item |-> [it EXCEPT !.raw_data = Some(exc)],
          next |-> "sleep", wait_time |-> BackoffDelay(attempt)]

\* the except clause: what it does to the item and how the iteration ends
\* ("continue": straight on to the loop, "sleep": asyncio.sleep(wait_time))
ExceptHandler(it, attempt, mr, exc) ==
    IF attempt = mr - 1
    THEN [item |-> [it EXCEPT !.status = "failed", !.error = Some(exc)],
          next |-> "continue", wait_time |-> 0]
    ELSE [item |-> it, next |-> "sleep", wait_time |-> BackoffDelay(attempt)]

\* the coroutine after a stage raised exc at tick clock
AfterException(t, mr, exc, clock) ==
    LET h == ExceptHandler(t.item, t.attempt, mr, exc)
        u == [t EXCEPT !.item = h.item, !.failed_at = clock]
    IN  CASE h.next = "sleep" ->
               [u EXCEPT !.pc = "backoff", !.wait_time = h.wait_time,
                         !.wake = clock + h.wait_time * TicksPerSecond]
          [] h.next = "continue" -> NextIteration(u, mr, clock)
          [] OTHER -> Propagate(u)

(***************************************************************************)
(* Inputs and the initial state: the caller has created the coroutines     *)
(* and awaits them; none has run yet.                                      *)
(***************************************************************************)
\* pattern_gather is not running
GatherIdle ==
    /\ pg_delays = <<>>
    /\ pg_now = 0
    /\ pg_start = 0
    /\ pg_task = <<>>
    /\ pg_pc = "idle"
    /\ pg_results = <<>>
    /\ pg_elapsed = 0

\* no `async with` block is running and no connection exists
DbIdle ==
    /\ db_script = <<>>
    /\ db_connected = FALSE
    /\ db_now = 0
    /\ db_main = [pc |-> "idle"]
    /\ db_probe = [pc |-> "idle"]
    /\ db_probes = 0

\* pattern_create_task has not been called
CtIdle ==
    /\ ct_now = 0
    /\ ct_task = <<>>
    /\ ct_pc = "idle"
    /\ ct_wake = 0
    /\ ct_results = <<>>

\* pattern_as_completed has not been called
AcIdle ==
    /\ ac_delays = <<>>
    /\ ac_now = 0
    /\ ac_task = <<>>
    /\ ac_queue = <<>>
    /\ ac_observed = <<>>
    /\ ac_pc = "idle"

\* no function has been wrapped by cache_with_ttl
TtlIdle ==
    /\ ttl_ttl = 0
    /\ ttl_now = 0
    /\ ttl_cache = <<>>
    /\ ttl_computed = <<>>
    /\ ttl_last = [op |-> "none"]

\* no class has been wrapped by singleton
SgIdle ==
    /\ sg_accepts = {}
    /\ sg_instances = <<>>
    /\ sg_created = 0
    /\ sg_log = <<>>

\* no Stack has been constructed
StIdle ==
    /\ st_items = <<>>
    /\ st_live = {}
    /\ st_pushes = 0
    /\ st_last = [op |-> "none"]

\* no function wrapped by retry has been called
RtIdle ==
    /\ rt_max_attempts = 0
    /\ rt_delay = 0
    /\ rt_pc = "idle"
    /\ rt_attempt = 0
    /\ rt_log = <<>>
    /\ rt_sleeps = 0
    /\ rt_slept = 0
    /\ rt_result = [kind |-> "none"]

\* no function has been wrapped by cache
ChIdle ==
    /\ ch_cached = <<>>
    /\ ch_invoked = <<>>
    /\ ch_first = <<>>
    /\ ch_log = <<>>

\* every program other than the pipeline, pattern_gather and prog is idle
IdleExcept(prog) ==
    /\ prog # "db" => DbIdle
    /\ prog # "ac" => AcIdle
    /\ prog # "ct" => CtIdle
    /\ prog # "ttl" => TtlIdle
    /\ prog # "sg" => SgIdle
    /\ prog # "st" => StIdle
    /\ prog # "rt" => RtIdle
    /\ prog # "ch" => ChIdle

Batches == UNION {[1..n -> ItemIds] : n \in 0..MaxBatch}

Inputs ==
    {[entry |-> "run_pipeline", item_ids |-> b, max_retries |-> DEFAULT_MAX_RETRIES] :
        b \in Batches}
    \cup
    {[entry |-> "process_item", item_ids |-> <<i>>, max_retries |-> m] :
        i \in ItemIds, m \in 0..MaxRetries}

Init ==
    \E inp \in Inputs :
        /\ entry = inp.entry
        /\ item_ids = inp.item_ids
        /\ max_retries = inp.max_retries
        /\ now = 0
        /\ task = [p \in 1..Len(inp.item_ids) |-> NewTask(inp.item_ids[p])]
        /\ done_order = <<>>
        /\ main_pc = "await"
        /\ results = <<>>
        /\ completed = 0
        /\ failed = 0
        /\ GatherIdle
        /\ IdleExcept("none")

(***************************************************************************)
(* Steps of the coroutine at position p.                                   *)
(***************************************************************************)
\* a coroutine resumes only once every coroutine before it has finished
ReadyInTurn(p, stage) ==
    /\ task[p].pc = stage
    /\ task[p].wake <= now
    /\ \A q \in 1..(p - 1) : task[q].pc = "done"

\* the coroutine at p sleeps in stage and its timer is due
Ready(p, stage) == task[p].pc = stage /\ task[p].wake <= now

\* the coroutine's new frame t replaces the old one
Step(p, t) ==
    /\ task' = [task EXCEPT ![p] = t]
    /\ done_order' = IF t.pc \in {"done", "raised"} THEN Append(done_order, p)
                     ELSE done_order
    /\ UNCHANGED <<entry, item_ids, max_retries, now, main_pc, results,
                   completed, failed>>
    /\ UNCHANGED non_pipeline_vars

\* first run of the coroutine: item = DataItem(id=item_id), then the loop
Start(p) ==
    /\ task[p].pc = "created"
    /\ Step(p, IF InRange(0, max_retries)
               THEN BeginAttempt(task[p], 0, now)
               ELSE ReturnItem(task[p]))

\* the sleep of fetch_data ends: it raises or returns raw
FetchDone(p) ==
    /\ Ready(p, "fetch")
    /\ \E r \in RandomDraws :
        LET t == task[p]
            f == fetch_data(t.item.id, FAIL_RATE, r)
        IN  Step(p, IF f.raised
                    THEN AfterException([t EXCEPT !.fetch_failures = @ + 1],
                                        max_retries, f.exc, now)
                    ELSE [t EXCEPT !.item.raw_data = Some(f.value.data),
                                   !.data = f.value,
                                   !.pc = "process",
                                   !.stages = Append(@, "process"),
                                   !.wake = now + PROCESS_DELAY])

\* the sleep of process_data ends
ProcessDone(p) ==
    /\ Ready(p, "process")
    /\ LET t == task[p]
           processed == process_data(t.data)
       IN  Step(p, [t EXCEPT !.item.processed_data = Some(processed.processed),
                             !.data = processed,
                             !.pc = "save",
                             !.stages = Append(@, "save"),
                             !.wake = now + SAVE_DELAY])

\* the sleep of save_data ends: the item is completed and returned
SaveDone(p) ==
    /\ Ready(p, "save")
    /\ save_data(task[p].data)
    /\ Step(p, ReturnItem([task[p] EXCEPT !.item = MarkCompleted(@)]))

\* the retry wait ends: on to the next iteration of the loop
BackoffDone(p) ==
    /\ Ready(p, "backoff")
    /\ Step(p, NextIteration([task[p] EXCEPT !.backoff = @ + (now - task[p].failed_at)],
                             max_retries, now))

(***************************************************************************)
(* The event loop: with no coroutine ready, the clock moves to the         *)
(* earliest pending timer.                                                 *)
(***************************************************************************)
Asleep(p) == task[p].pc \in {"fetch", "process", "save", "backoff"}
Runnable(p) == task[p].pc = "created" \/ (Asleep(p) /\ task[p].wake <= now)

Tick ==
    /\ \A p \in Positions : ~Runnable(p)
    /\ \E p \in Positions :
        /\ Asleep(p)
        /\ \A q \in Positions : Asleep(q) => task[p].wake <= task[q].wake
        /\ now' = task[p].wake
    /\ UNCHANGED <<entry, item_ids, max_retries, task, done_order, main_pc,
                   results, completed, failed>>
    /\ UNCHANGED non_pipeline_vars

(***************************************************************************)
(* The caller.                                                             *)
(***************************************************************************)
\* results collected as the coroutines finish, first finished first
GatherResultsAsCompleted(tasks, order) == [k \in 1..Len(order) |-> tasks[order[k]].item]

\* one shared slot: every position holds the item of the last finisher
GatherResultsLastWins(tasks, order) ==
    [p \in 1..Len(tasks) |-> tasks[order[Len(order)]].item]

\* asyncio.gather(*tasks): the results of the awaitables, in the order the
\* awaitables were passed
GatherResults(tasks, order) == [p \in 1..Len(tasks) |-> tasks[p].item]

\* sum(1 for r in results): the filter on the status is missing
RECURSIVE CountStatusAll(_, _)
CountStatusAll(rs, status) ==
    IF rs = <<>> THEN 0 ELSE 1 + CountStatusAll(Tail(rs), status)

\* sum(1 for r in results if r.status == status)
RECURSIVE CountStatus(_, _)
CountStatus(rs, status) ==
    IF rs = <<>> THEN 0
    ELSE (IF Head(rs).status = status THEN 1 ELSE 0) + CountStatus(Tail(rs), status)

\* the caller resumes as soon as one coroutine has finished
GatherSettledFirstDone == \E p \in Positions : task[p].pc \in {"done", "raised"}

AllDone == \A p \in Positions : task[p].pc = "done"
SomeRaised == \E p \in Positions : task[p].pc = "raised"
GatherSettled == AllDone \/ SomeRaised

\* run_pipeline resumes from `await asyncio.gather(*tasks)`: the first
\* exception propagates, otherwise the statistics are computed and the
\* results returned
Gather ==
    /\ entry = "run_pipeline"
    /\ main_pc = "await"
    /\ GatherSettled
    /\ IF SomeRaised
       THEN /\ main_pc' = "raised"
            /\ UNCHANGED <<results, completed, failed>>
       ELSE LET rs == GatherResults(task, done_order)
            IN  /\ main_pc' = "returned"
                /\ results' = rs
                /\ completed' = CountStatus(rs, "completed")
                /\ failed' = CountStatus(rs, "failed")
    /\ UNCHANGED <<entry, item_ids, max_retries, now, task, done_order>>
    /\ UNCHANGED non_pipeline_vars

\* a direct caller resumes from `await process_item(item_id, max_retries)`
AwaitItem ==
    /\ entry = "process_item"
    /\ main_pc = "await"
    /\ GatherSettled
    /\ IF SomeRaised
       THEN /\ main_pc' = "raised"
            /\ UNCHANGED results
       ELSE /\ main_pc' = "returned"
            /\ results' = <<task[1].item>>
    /\ UNCHANGED <<entry, item_ids, max_retries, now, task, done_order,
                   completed, failed>>
    /\ UNCHANGED non_pipeline_vars

Next ==
    \/ \E p \in Positions : Start(p)
    \/ \E p \in Positions : FetchDone(p)
    \/ \E p \in Positions : ProcessDone(p)
    \/ \E p \in Positions : SaveDone(p)
    \/ \E p \in Positions : BackoffDone(p)
    \/ Tick
    \/ Gather
    \/ AwaitItem

Spec == Init /\ [][Next]_vars

(***************************************************************************)
(* Properties of the pipeline.                                             *)
(***************************************************************************)
Terminal(it) == it.status \in {"completed", "failed"}

\* C1: whatever order the coroutines finish in, the list run_pipeline
\* returns is as long as item_ids and its i-th element carries the i-th id.
C1_ResultsInInputOrder ==
    (entry = "run_pipeline" /\ main_pc = "returned") =>
        /\ Len(results) = Len(item_ids)
        /\ \A i \in 1..Len(item_ids) : results[i].id = item_ids[i]

\* run_pipeline has returned a batch in which an item that retried finished
\* after an item with another id submitted after it
C1_Witness ==
    /\ entry = "run_pipeline"
    /\ main_pc = "returned"
    /\ \E i, j \in 1..Len(done_order) :
        /\ i < j
        /\ done_order[i] > done_order[j]
        /\ item_ids[done_order[i]] # item_ids[done_order[j]]
        /\ task[done_order[j]].attempts > 1

\* C2: no stage failure leaves process_item: no coroutine ends by raising,
\* the caller never sees an exception, a coroutine that finished after
\* failures returned a completed or failed DataItem, and when run_pipeline
\* returns every coroutine has run to its own end and its item is in the
\* result list.
C2_FailureContained ==
    /\ \A p \in Positions : task[p].pc # "raised"
    /\ main_pc # "raised"
    /\ \A p \in Positions :
        (task[p].pc = "done" /\ task[p].fetch_failures > 0) =>
            /\ Terminal(task[p].item)
            /\ (task[p].fetch_failures = max_retries <=> task[p].item.status = "failed")
    /\ (entry = "run_pipeline" /\ main_pc = "returned") =>
        \A p \in Positions : task[p].pc = "done" /\ results[p] = task[p].item

\* run_pipeline has returned a batch with a failed item and a completed one
C2_Witness ==
    /\ entry = "run_pipeline"
    /\ main_pc = "returned"
    /\ \E p, q \in Positions :
        /\ results[p].status = "failed"
        /\ results[q].status = "completed"

\* C3: with max_retries <= 0 process_item never returns an item (and so
\* never one whose status is still pending).
C3_InvalidConfigRejected ==
    max_retries <= 0 =>
        /\ \A p \in Positions : task[p].pc # "done"
        /\ main_pc # "returned"

\* C4 as stated: every change of an item's status is pending -> in_progress
\* or in_progress -> completed | failed.
C4_ThroughInProgress ==
    [][\A p \in Positions :
        LET a == task[p].item.status
            b == task'[p].item.status
        IN  a # b => \/ (a = "pending" /\ b = "in_progress")
                     \/ (a = "in_progress" /\ b \in {"completed", "failed"})]_vars

\* C4, amended: every change of an item's status is pending -> completed or
\* pending -> failed; a completed or failed item keeps its status, and no
\* item is ever in_progress.
C4_PendingThenTerminal ==
    [][\A p \in Positions :
        LET a == task[p].item.status
            b == task'[p].item.status
        IN  a # b => (a = "pending" /\ b \in {"completed", "failed"})]_vars

\* one item has become completed after a retry, another failed, and the
\* clock has moved on since
C4_Witness ==
    /\ \E p, q \in Positions :
        /\ task[p].item.status = "completed"
        /\ task[p].attempts > 1
        /\ task[q].item.status = "failed"
        /\ now > task[p].wake
        /\ now > task[q].failed_at

\* C5: a completed item has processed_data and no error, also when earlier
\* attempts of it failed.
C5_CompletedHasPayloadNoError ==
    \A p \in Positions :
        task[p].item.status = "completed" =>
            /\ task[p].item.processed_data # None
            /\ task[p].item.error = None

\* an item completed on its last attempt after every earlier one failed
C5_Witness ==
    \E p \in Positions :
        /\ task[p].item.status = "completed"
        /\ max_retries > 1
        /\ task[p].fetch_failures = max_retries - 1

\* C6: a failed item has made exactly max_retries attempts and has an error;
\* status failed is never seen with error None.
C6_FailedAfterAllAttempts ==
    \A p \in Positions :
        task[p].item.status = "failed" =>
            /\ task[p].attempts = max_retries
            /\ task[p].item.error # None

\* an item failed while another coroutine of the batch is still running
C6_Witness ==
    \E p, q \in Positions :
        /\ task[p].item.status = "failed"
        /\ task[q].pc \notin {"done", "raised"}

\* the stages of one pass: a non-empty prefix of fetch, process, save
StageOrder == <<"fetch", "process", "save">>
IsPassPrefix(st) ==
    /\ Len(st) \in 1..Len(StageOrder)
    /\ \A i \in 1..Len(st) : st[i] = StageOrder[i]

\* C7: every pass through the stages starts at fetch, retries included, a
\* coroutine waiting to retry goes on with a fresh pass, and no item gets
\* more than max_retries passes.
C7_RestartFromFetchBounded ==
    \A p \in Positions :
        /\ task[p].attempts <= max_retries
        /\ task[p].attempts > 0 =>
            /\ IsPassPrefix(task[p].stages)
            /\ task[p].attempts = task[p].attempt + 1
        /\ task[p].pc = "fetch" => task[p].stages = <<"fetch">>
        /\ task[p].pc = "backoff" => task[p].attempts < max_retries

\* an item is fetching again in its last permitted pass
C7_Witness ==
    \E p \in Positions :
        /\ task[p].pc = "fetch"
        /\ task[p].fetch_failures > 0
        /\ task[p].attempts = max_retries

\* C8: the wait after the failure of attempt k is 2^k seconds when k is not
\* the last attempt and nothing when it is: the next pass begins exactly
\* 2^k seconds after the failure, a failed item is returned at the tick of
\* its last failure, and an item that failed with max_retries = 3 has
\* waited 1 + 2 = 3 seconds in all.
C8_ExponentialBackoff ==
    \A p \in Positions :
        LET t == task[p] IN
        /\ t.pc = "backoff" =>
            /\ t.attempt < max_retries - 1
            /\ t.wait_time = 2 ^ t.attempt
            /\ t.wake - t.failed_at = (2 ^ t.attempt) * TicksPerSecond
        /\ (t.attempt > 0 /\ t.pc \in {"fetch", "process", "save"}) =>
            t.began_at - t.failed_at = (2 ^ (t.attempt - 1)) * TicksPerSecond
        /\ t.item.status = "failed" =>
            /\ t.pc = "done"
            /\ t.backoff = (2 ^ (max_retries - 1) - 1) * TicksPerSecond
            /\ max_retries = 3 => t.backoff = 3 * TicksPerSecond

\* an item has failed with max_retries = 3 after waiting 3 seconds
C8_Witness ==
    \E p \in Positions :
        /\ max_retries = 3
        /\ task[p].item.status = "failed"
        /\ task[p].backoff = 3 * TicksPerSecond

\* C9: an item none of whose stages failed ends completed after exactly one
\* attempt and no backoff wait.  With max_retries = 0 the loop body never
\* runs: no stage fails, and the item is returned pending after no attempt.
C9_NoFailureOneAttempt ==
    \A p \in Positions :
        (task[p].pc = "done" /\ task[p].fetch_failures = 0) =>
            /\ task[p].item.status = "completed"
            /\ task[p].attempts = 1
            /\ task[p].backoff = 0
            /\ task[p].wait_time = 0

\* C10: with max_retries = N >= 1, an item all of whose attempts failed ends
\* failed after exactly N attempts, with the text of the last exception as
\* its error.
C10_AllFailNAttempts ==
    \A p \in Positions :
        (max_retries >= 1 /\ task[p].pc = "done"
            /\ task[p].fetch_failures = task[p].attempts) =>
            /\ task[p].item.status = "failed"
            /\ task[p].attempts = max_retries
            /\ task[p].item.error # None
            /\ Len(task[p].item.error.val) > 0
            /\ task[p].item.error.val =
                   FETCH_ERROR_PREFIX \o IntToStr(task[p].item.id)

\* a direct caller got back an item that failed all of its MaxRetries attempts
C10_Witness ==
    /\ entry = "process_item"
    /\ main_pc = "returned"
    /\ max_retries = MaxRetries
    /\ task[1].fetch_failures = MaxRetries
    /\ results[1].status = "failed"

\* C11: run_pipeline is a join: while it awaits the batch it holds no result
\* and no count, and when it has the counts and the result list every
\* coroutine of the batch has returned a completed or failed item.
C11_BatchJoin ==
    entry = "run_pipeline" =>
        /\ main_pc = "await" => (results = <<>> /\ completed = 0 /\ failed = 0)
        /\ main_pc = "returned" =>
            \A p \in Positions :
                /\ task[p].pc = "done"
                /\ Terminal(task[p].item)
                /\ Terminal(results[p])

\* run_pipeline is still waiting, empty-handed, although an item of the
\* batch is already terminal, because another is in backoff
C11_Witness ==
    /\ entry = "run_pipeline"
    /\ main_pc = "await"
    /\ results = <<>>
    /\ \E p, q \in Positions :
        /\ task[p].pc = "done"
        /\ Terminal(task[p].item)
        /\ task[q].pc = "backoff"

\* a step of the coroutine at position p
TaskStep(p) ==
    \/ Start(p)
    \/ FetchDone(p)
    \/ ProcessDone(p)
    \/ SaveDone(p)
    \/ BackoffDone(p)

\* C12: whatever the other coroutines are doing, a coroutine that is created
\* or whose timer is due can take its next step, and the clock never passes
\* the deadline of a sleeping coroutine, so no item is resumed late.
C12_NoItemBlocksAnother ==
    \A p \in Positions :
        /\ Runnable(p) => ENABLED TaskStep(p)
        /\ Asleep(p) => task[p].wake >= now

\* B can take its process step while A is in the middle of a backoff wait
\* and C has already returned
C12_Witness ==
    \E a, b, c \in Positions :
        /\ task[a].pc = "backoff"
        /\ task[a].wake > now
        /\ task[b].pc = "process"
        /\ Runnable(b)
        /\ a < b
        /\ task[c].pc = "done"

\* C13: in every pass the stages run one after the other in the order
\* fetch, process, save: process is begun only with the dict the fetch of
\* the same pass returned, FETCH_DELAY after the pass began, and save only
\* with the dict process returned, PROCESS_DELAY later still.
C13_StagesInOrder ==
    \A p \in Positions :
        LET t == task[p]
            raw == RAW_PREFIX \o IntToStr(item_ids[p])
        IN
        /\ t.attempts > 0 => IsPassPrefix(t.stages)
        /\ t.pc = "fetch" =>
            /\ t.stages = <<"fetch">>
            /\ t.wake = t.began_at + FETCH_DELAY
        /\ t.pc = "process" =>
            /\ t.stages = <<"fetch", "process">>
            /\ t.wake = t.began_at + FETCH_DELAY + PROCESS_DELAY
            /\ t.data = [id |-> item_ids[p], data |-> raw]
            /\ t.item.raw_data = Some(raw)
        /\ t.pc = "save" =>
            /\ t.stages = <<"fetch", "process", "save">>
            /\ t.wake = t.began_at + FETCH_DELAY + PROCESS_DELAY + SAVE_DELAY
            /\ DOMAIN t.data = {"id", "data", "processed"}
            /\ t.item.processed_data = Some(t.data.processed)

\* an item is in the save stage of a retry pass
C13_Witness ==
    \E p \in Positions :
        /\ task[p].pc = "save"
        /\ task[p].attempt > 0

\* "RAW_DATA_", written out
RAW_PREFIX_UPPER == <<"R", "A", "W", "_", "D", "A", "T", "A", "_">>

\* the values the coroutine at position p may write into its item
OwnRaw(p) == Some(RAW_PREFIX \o IntToStr(item_ids[p]))
OwnProcessed(p) == Some(RAW_PREFIX_UPPER \o IntToStr(item_ids[p]))
OwnError(p) == Some(FETCH_ERROR_PREFIX \o IntToStr(item_ids[p]))

\* C14: under every interleaving the item at a position carries that
\* position's id and only values derived from it (raw_data "raw_data_<id>",
\* processed_data its upper case, error the text of its own fetch failure),
\* a completed item has both payloads, and a step that changes one
\* coroutine's frame leaves every other frame, item included, as it was.
C14_ItemsIndependent ==
    /\ [](\A p \in Positions :
            LET it == task[p].item IN
            /\ it.id = item_ids[p]
            /\ it.raw_data \in {None, OwnRaw(p)}
            /\ it.processed_data \in {None, OwnProcessed(p)}
            /\ it.error \in {None, OwnError(p)}
            /\ it.status = "completed" =>
                (it.raw_data = OwnRaw(p) /\ it.processed_data = OwnProcessed(p)))
    /\ [][\A p \in Positions :
            task'[p] # task[p] =>
                \A q \in Positions \ {p} : task'[q] = task[q]]_vars

\* two items with different ids are completed, the one submitted first
\* after a retry and later than the other
C14_Witness ==
    \E p, q \in Positions :
        /\ p < q
        /\ item_ids[p] # item_ids[q]
        /\ task[p].item.status = "completed"
        /\ task[q].item.status = "completed"
        /\ task[p].attempts > 1
        /\ task[q].attempts = 1

\* the number of times position p occurs in the finishing order
Occurrences(order, p) == Cardinality({k \in 1..Len(order) : order[k] = p})

\* C15: every position's slot is written once: a coroutine finishes at most
\* once and exactly once by the time run_pipeline returns, a finished
\* coroutine's frame and item never change again, the result list is
\* assigned once and holds at each position the terminal item of that
\* position's own coroutine.
C15_SlotWrittenOnce ==
    /\ [](\A p \in Positions :
            /\ Occurrences(done_order, p) = (IF task[p].pc = "done" THEN 1 ELSE 0)
            /\ (entry = "run_pipeline" /\ main_pc = "returned") =>
                /\ Occurrences(done_order, p) = 1
                /\ results[p] = task[p].item
                /\ Terminal(results[p]))
    /\ [][\A p \in Positions : task[p].pc = "done" => task'[p] = task[p]]_vars
    /\ [][main_pc = "returned" => results' = results]_vars
    /\ [][results' # results => (main_pc = "await" /\ main_pc' = "returned")]_vars

\* run_pipeline has returned three items that finished in the reverse of
\* the order they were submitted in
C15_Witness ==
    /\ entry = "run_pipeline"
    /\ main_pc = "returned"
    /\ done_order = <<3, 2, 1>>
    /\ \A p \in Positions : results[p] = task[p].item

\* the statuses of a batch of n items whose stage calls all behave alike
ExpectedStatuses(n, behaviour) ==
    [p \in 1..n |-> IF behaviour = "succeed" THEN "completed" ELSE "failed"]

\* C17: the statuses run_pipeline returns are fixed by the id sequence and
\* the stage behaviour: whatever the interleaving, a run in which every
\* stage call succeeded returns all items completed and a run in which
\* every fetch failed returns all items failed, so two such runs agree at
\* every position.
C17_DeterministicStatuses ==
    (entry = "run_pipeline" /\ main_pc = "returned") =>
        LET statuses == [p \in 1..Len(results) |-> results[p].status] IN
        /\ (\A p \in Positions : task[p].fetch_failures = 0) =>
                statuses = ExpectedStatuses(Len(item_ids), "succeed")
        /\ (\A p \in Positions : task[p].fetch_failures = task[p].attempts) =>
                statuses = ExpectedStatuses(Len(item_ids), "fail")

\* a run in which every fetch failed has returned, its coroutines having
\* finished in another order than they were submitted in
C17_Witness ==
    /\ entry = "run_pipeline"
    /\ main_pc = "returned"
    /\ Len(item_ids) >= 2
    /\ \A p \in Positions : task[p].fetch_failures = task[p].attempts
    /\ done_order[1] # 1

\* C18: the summary partitions the batch: completed counts the returned
\* items with status completed, failed those with status failed, the two
\* add up to the number of ids, and the step that computes them changes no
\* coroutine's item.
C18_SummaryPartitions ==
    /\ []((entry = "run_pipeline" /\ main_pc = "returned") =>
            /\ completed = Cardinality({p \in 1..Len(results) :
                                            results[p].status = "completed"})
            /\ failed = Cardinality({p \in 1..Len(results) :
                                         results[p].status = "failed"})
            /\ completed + failed = Len(item_ids)
            /\ \A p \in Positions : results[p] = task[p].item)
    /\ [][(completed' # completed \/ failed' # failed \/ main_pc' # main_pc)
            => task' = task]_vars

\* the summary of a batch of three reports both completed and failed items
C18_Witness ==
    /\ entry = "run_pipeline"
    /\ main_pc = "returned"
    /\ Len(item_ids) = 3
    /\ completed > 0
    /\ failed > 0
    /\ completed + failed = 3

\* C19: error is set only on terminal failure: an item with an error is
\* failed, so an item waiting to retry after a failed attempt has none.
C19_ErrorOnlyWhenFailed ==
    \A p \in Positions :
        /\ task[p].item.error # None => task[p].item.status = "failed"
        /\ (task[p].pc = "backoff" /\ task[p].fetch_failures > 0) =>
                task[p].item.error = None

\* an item waits for its second retry with no error recorded
C19_Witness ==
    \E p \in Positions :
        /\ task[p].pc = "backoff"
        /\ task[p].fetch_failures = 2
        /\ task[p].item.error = None
        /\ task[p].item.status = "pending"

\* C21: a retry starts from scratch: while an item waits to retry and when
\* any pass begins, the item is as DataItem(id) constructed it (no raw_data,
\* no processed_data, no error, pending) and no stage dict is held; and
\* what a pass that succeeds leaves in the item is the same whether it was
\* the first pass or came after failed ones.
C21_RetryFromScratch ==
    \A p \in Positions :
        LET t == task[p] IN
        /\ t.pc \in {"fetch", "backoff"} =>
            /\ t.item = DataItem(item_ids[p])
            /\ t.data = None
        /\ t.item.status = "completed" =>
            t.item = [id |-> item_ids[p], raw_data |-> OwnRaw(p),
                      processed_data |-> OwnProcessed(p),
                      status |-> "completed", error |-> None]

\* one item begins its third pass while another, submitted after it, has
\* completed on a retry
C21_Witness ==
    \E p, q \in Positions :
        /\ p < q
        /\ task[p].pc = "fetch"
        /\ task[p].attempt = 2
        /\ task[p].item = DataItem(item_ids[p])
        /\ task[q].item.status = "completed"
        /\ task[q].fetch_failures > 0

\* C30: as only the fetch stage can fail, and it fails before anything is
\* written, a failed item carries no payload, and an item never has
\* processed_data without raw_data.
C30_FailedCarriesNoPayload ==
    \A p \in Positions :
        LET it == task[p].item IN
        /\ it.status = "failed" =>
            (it.raw_data = None /\ it.processed_data = None)
        /\ it.processed_data # None => it.raw_data # None

\* a returned batch holds a failed item without payload next to an item
\* with both payloads
C30_Witness ==
    /\ main_pc = "returned"
    /\ \E p, q \in 1..Len(results) :
        /\ results[p].status = "failed"
        /\ results[p].raw_data = None
        /\ results[p].processed_data = None
        /\ results[q].processed_data # None
        /\ results[q].raw_data # None

\* The event loop keeps running while a coroutine is ready, a timer is
\* pending or the caller can resume.
FairSpec == Spec /\ WF_vars(Next)

\* C16: with max_retries >= 1 the awaited call always completes: whatever
\* stages fail, eventually every coroutine has returned a completed or
\* failed item and the caller has the whole result list (and run_pipeline
\* its two counts, which cover the batch).
C16_PipelineCompletes ==
    max_retries >= 1 =>
        <>(/\ main_pc = "returned"
           /\ Len(results) = Len(item_ids)
           /\ \A p \in Positions : task[p].pc = "done" /\ Terminal(results[p])
           /\ entry = "run_pipeline" => completed + failed = Len(item_ids))

\* run_pipeline has returned a batch of three in which every item failed
C16_Witness ==
    /\ entry = "run_pipeline"
    /\ main_pc = "returned"
    /\ Len(item_ids) = 3
    /\ failed = 3
    /\ \A p \in Positions : results[p].status = "failed"

(***************************************************************************)
(* exercise_2_solution.py, pattern_gather: asyncio.gather over coroutines  *)
(* process_data(item_id, delay) that sleep for delay and return a dict.    *)
(* exercise_1_solution.py, main_async, is the same with every delay one    *)
(* second.  The item ids are 1, 2, 3, ... in the order passed.             *)
(***************************************************************************)
\* the delays the two sources pass: 0.5 s, 1.0 s and 1.5 s, in ticks
PgDelays == {5, 10, 15}

\* the literal part of f"Processed {item_id}"
PROCESSED_PREFIX == <<"P", "r", "o", "c", "e", "s", "s", "e", "d", " ">>

\* process_data(item_id, delay) of exercise 2, after its sleep
pg_process_data(item_id, delay) ==
    [id |-> item_id, result |-> PROCESSED_PREFIX \o IntToStr(item_id)]

PgPositions == 1..Len(pg_delays)

\* the pipeline is not running
PipelineIdle ==
    /\ entry = "none"
    /\ item_ids = <<>>
    /\ max_retries = DEFAULT_MAX_RETRIES
    /\ now = 0
    /\ task = <<>>
    /\ done_order = <<>>
    /\ main_pc = "idle"
    /\ results = <<>>
    /\ completed = 0
    /\ failed = 0

\* pattern_gather has taken start and awaits gather; no coroutine has run
PgInit ==
    /\ PipelineIdle
    /\ pg_delays \in UNION {[1..n -> PgDelays] : n \in 1..MaxGather}
    /\ pg_now = 0
    /\ pg_start = 0
    /\ pg_task = [p \in 1..Len(pg_delays) |-> [pc |-> "created", wake |-> 0, result |-> None]]
    /\ pg_pc = "await"
    /\ pg_results = <<>>
    /\ pg_elapsed = 0
    /\ IdleExcept("none")

\* each coroutine is awaited to its end before the next one is started
PgScheduledInTurn(ts, p) ==
    /\ ts[p].pc = "created"
    /\ \A q \in 1..(p - 1) : ts[q].pc = "done"

\* gather schedules every coroutine it is passed: a created coroutine can
\* start whatever the others are doing
PgScheduled(ts, p) == ts[p].pc = "created"

\* the coroutine at p runs up to its asyncio.sleep(delay)
PgStart(p) ==
    /\ PgScheduled(pg_task, p)
    /\ pg_task' = [pg_task EXCEPT ![p].pc = "sleep", ![p].wake = pg_now + pg_delays[p]]
    /\ UNCHANGED <<pg_delays, pg_now, pg_start, pg_pc, pg_results, pg_elapsed>>
    /\ UNCHANGED non_gather_vars

\* its sleep over, the coroutine at p returns its dict
PgWake(p) ==
    /\ pg_task[p].pc = "sleep"
    /\ pg_task[p].wake <= pg_now
    /\ pg_task' = [pg_task EXCEPT ![p].pc = "done",
                                  ![p].result = pg_process_data(p, pg_delays[p])]
    /\ UNCHANGED <<pg_delays, pg_now, pg_start, pg_pc, pg_results, pg_elapsed>>
    /\ UNCHANGED non_gather_vars

PgCanStart == \E p \in PgPositions : PgScheduled(pg_task, p)
PgDue(p) == pg_task[p].pc = "sleep" /\ pg_task[p].wake <= pg_now

\* with nothing ready, the clock moves to the earliest pending timer
PgTick ==
    /\ ~PgCanStart
    /\ \A p \in PgPositions : ~PgDue(p)
    /\ \E p \in PgPositions :
        /\ pg_task[p].pc = "sleep"
        /\ \A q \in PgPositions :
            pg_task[q].pc = "sleep" => pg_task[p].wake <= pg_task[q].wake
        /\ pg_now' = pg_task[p].wake
    /\ UNCHANGED <<pg_delays, pg_start, pg_task, pg_pc, pg_results, pg_elapsed>>
    /\ UNCHANGED non_gather_vars

\* gather resumes the caller with the results by position; elapsed is taken
PgReturn ==
    /\ pg_pc = "await"
    /\ \A p \in PgPositions : pg_task[p].pc = "done"
    /\ pg_results' = [p \in PgPositions |-> pg_task[p].result]
    /\ pg_elapsed' = pg_now - pg_start
    /\ pg_pc' = "returned"
    /\ UNCHANGED <<pg_delays, pg_now, pg_start, pg_task>>
    /\ UNCHANGED non_gather_vars

PgNext ==
    \/ \E p \in PgPositions : PgStart(p)
    \/ \E p \in PgPositions : PgWake(p)
    \/ PgTick
    \/ PgReturn

PatternGatherSpec == PgInit /\ [][PgNext]_vars

\* the largest and the sum of a sequence of delays
RECURSIVE MaxDelay(_)
MaxDelay(ds) ==
    IF ds = <<>> THEN 0
    ELSE LET m == MaxDelay(Tail(ds)) IN IF Head(ds) > m THEN Head(ds) ELSE m
RECURSIVE SumDelays(_)
SumDelays(ds) == IF ds = <<>> THEN 0 ELSE Head(ds) + SumDelays(Tail(ds))

\* C20: coroutines gathered concurrently all complete, each with its own
\* result at its own position, and the batch takes as long as its slowest
\* coroutine, not the sum of the delays: with delays 1.0, 0.5 and 1.5 s it
\* takes 1.5 s, not 3.0 s.
C20_GatherTakesMaxDelay ==
    pg_pc = "returned" =>
        /\ Len(pg_results) = Len(pg_delays)
        /\ \A p \in PgPositions :
            pg_results[p] = [id |-> p, result |-> PROCESSED_PREFIX \o IntToStr(p)]
        /\ pg_elapsed = MaxDelay(pg_delays)
        /\ Len(pg_delays) > 1 => pg_elapsed < SumDelays(pg_delays)
        /\ pg_delays = <<10, 5, 15>> => (pg_elapsed = 15 /\ pg_elapsed # 30)

\* pattern_gather has returned from the delays 1.0, 0.5 and 1.5 s after 1.5 s
C20_Witness ==
    /\ pg_pc = "returned"
    /\ pg_delays = <<10, 5, 15>>
    /\ pg_elapsed = 15
    /\ Len(pg_results) = 3

(***************************************************************************)
(* exercise_4_solution.py: AsyncDatabaseConnection.  One coroutine runs an *)
(* `async with AsyncDatabaseConnection(...) as conn:` block whose body is  *)
(* a list of statements, each `await conn.query(sql)` or                   *)
(* `raise ValueError(...)`; query is also called on the same object from   *)
(* outside the block, at any moment of the connection's life.              *)
(***************************************************************************)
\* longest body of a block
MaxBody == 2
\* most query calls made from outside the block
MaxProbes == 2

\* asyncio.sleep(0.5) in __aenter__
CONNECT_DELAY == 5
\* asyncio.sleep(0.2) in __aexit__
CLOSE_DELAY == 2
\* asyncio.sleep(0.5) in query
QUERY_DELAY == 5

\* "SELECT"
SELECT_KEYWORD == <<"S", "E", "L", "E", "C", "T">>
\* "SELECT * FROM users"
SQL_SELECT_USERS ==
    <<"S", "E", "L", "E", "C", "T", " ", "*", " ", "F", "R", "O", "M", " ",
      "u", "s", "e", "r", "s">>
\* "UPDATE users"
SQL_UPDATE_USERS ==
    <<"U", "P", "D", "A", "T", "E", " ", "u", "s", "e", "r", "s">>
\* "select 1"
SQL_LOWER_SELECT == <<"s", "e", "l", "e", "c", "t", " ", "1">>

SqlInputs == {SQL_SELECT_USERS, SQL_UPDATE_USERS, SQL_LOWER_SELECT}

\* sub in s, for two str
Contains(sub, s) ==
    \E i \in 1..(Len(s) - Len(sub) + 1) : SubSeq(s, i, i + Len(sub) - 1) = sub

\* the rows of a SELECT and the answer to any other statement
SELECT_ROWS ==
    <<[id |-> 1, data |-> <<"r", "o", "w", "1">>],
      [id |-> 2, data |-> <<"r", "o", "w", "2">>]>>
OTHER_ROWS == <<[affected_rows |-> 1]>>

\* query without its check of self.connected
query_checkAlwaysConnected(connected) == [raised |-> FALSE, exc |-> "None"]

\* query up to its sleep: `if not self.connected: raise RuntimeError(...)`
query_check(connected) ==
    IF ~connected
    THEN [raised |-> TRUE, exc |-> "RuntimeError"]
    ELSE [raised |-> FALSE, exc |-> "None"]

\* query after its sleep: the result by the kind of statement
query_rows(sql) ==
    IF Contains(SELECT_KEYWORD, sql) THEN SELECT_ROWS ELSE OTHER_ROWS

\* __aexit__ returns True when the body raised: the exception is suppressed
aexit_returnSuppress(exc_type) == exc_type # "None"

\* what __aexit__ returns: `return False`
aexit_return(exc_type) == FALSE

\* the statements a body is made of
DbOps ==
    {[kind |-> "query", sql |-> s] : s \in SqlInputs}
    \cup {[kind |-> "raise", sql |-> <<>>]}

BodyRaises(script) == \E i \in 1..Len(script) : script[i].kind = "raise"

\* the connection is constructed (connected = False), nothing has run
DbInit ==
    /\ PipelineIdle
    /\ GatherIdle
    /\ IdleExcept("db")
    /\ db_script \in UNION {[1..n -> DbOps] : n \in 0..MaxBody}
    /\ db_connected = FALSE
    /\ db_now = 0
    /\ db_main = [pc |-> "new", ip |-> 0, wake |-> 0, exc |-> "None",
                  results |-> <<>>, exits |-> 0, closed_at |-> 0]
    /\ db_probe = [pc |-> "idle", sql |-> <<>>, wake |-> 0, at_call |-> FALSE,
                   during |-> "new", exc |-> "None", rows |-> <<>>]
    /\ db_probes = 0

\* the block is left with exc pending (or none): __aexit__ runs up to its sleep
DbBeginExit(m, exc, clock) ==
    [m EXCEPT !.pc = "exiting", !.exc = exc, !.wake = clock + CLOSE_DELAY]

\* the body from statement ip on, up to the next suspension: the end of the
\* body and a raise both enter __aexit__, a query checks the connection
\* and sleeps
DbRunBody(m, ip, connected, clock) ==
    LET n == [m EXCEPT !.ip = ip] IN
    IF ip > Len(db_script) THEN DbBeginExit(n, "None", clock)
    ELSE IF db_script[ip].kind = "raise" THEN DbBeginExit(n, "ValueError", clock)
    ELSE LET c == query_check(connected) IN
         IF c.raised THEN DbBeginExit(n, c.exc, clock)
         ELSE [n EXCEPT !.pc = "query", !.wake = clock + QUERY_DELAY]

\* `async with` calls __aenter__, which runs up to its sleep
DbEnter ==
    /\ db_main.pc = "new"
    /\ db_main' = [db_main EXCEPT !.pc = "entering", !.wake = db_now + CONNECT_DELAY]
    /\ UNCHANGED <<db_script, db_connected, db_now, db_probe, db_probes>>
    /\ UNCHANGED non_db_vars

\* __aenter__ resumes: connected = True, return self, and the body begins
DbEntered ==
    /\ db_main.pc = "entering"
    /\ db_main.wake <= db_now
    /\ db_connected' = TRUE
    /\ db_main' = DbRunBody(db_main, 1, TRUE, db_now)
    /\ UNCHANGED <<db_script, db_now, db_probe, db_probes>>
    /\ UNCHANGED non_db_vars

\* the body's query resumes and returns its rows; the body goes on
DbQueryDone ==
    /\ db_main.pc = "query"
    /\ db_main.wake <= db_now
    /\ db_main' = DbRunBody([db_main EXCEPT !.results =
                                Append(@, query_rows(db_script[db_main.ip].sql))],
                            db_main.ip + 1, db_connected, db_now)
    /\ UNCHANGED <<db_script, db_connected, db_now, db_probe, db_probes>>
    /\ UNCHANGED non_db_vars

\* __aexit__ resumes: connected = False, and its return value decides
\* whether a pending exception reaches the caller of the block
DbExited ==
    /\ db_main.pc = "exiting"
    /\ db_main.wake <= db_now
    /\ db_connected' = FALSE
    /\ db_main' = [db_main EXCEPT
                      !.pc = IF db_main.exc # "None" /\ ~aexit_return(db_main.exc)
                             THEN "raised" ELSE "returned",
                      !.exits = @ + 1,
                      !.closed_at = db_now]
    /\ UNCHANGED <<db_script, db_now, db_probe, db_probes>>
    /\ UNCHANGED non_db_vars

\* conn.query(sql) is called from outside the block: it raises at once or
\* sleeps
DbProbeCall(sql) ==
    /\ db_main.pc # "idle"
    /\ db_probes < MaxProbes
    /\ db_probe.pc # "sleep"
    /\ LET c == query_check(db_connected) IN
       db_probe' = [pc |-> IF c.raised THEN "raised" ELSE "sleep",
                    sql |-> sql,
                    wake |-> IF c.raised THEN 0 ELSE db_now + QUERY_DELAY,
                    at_call |-> db_connected,
                    during |-> db_main.pc,
                    exc |-> c.exc,
                    rows |-> <<>>]
    /\ db_probes' = db_probes + 1
    /\ UNCHANGED <<db_script, db_connected, db_now, db_main>>
    /\ UNCHANGED non_db_vars

\* the outside query resumes and returns its rows
DbProbeDone ==
    /\ db_probe.pc = "sleep"
    /\ db_probe.wake <= db_now
    /\ db_probe' = [db_probe EXCEPT !.pc = "returned", !.rows = query_rows(db_probe.sql)]
    /\ UNCHANGED <<db_script, db_connected, db_now, db_main, db_probes>>
    /\ UNCHANGED non_db_vars

\* the timers pending on the event loop
DbTimers ==
    (IF db_main.pc \in {"entering", "query", "exiting"} THEN {db_main.wake} ELSE {})
    \cup (IF db_probe.pc = "sleep" THEN {db_probe.wake} ELSE {})

\* with no timer due, the clock moves to the earliest pending timer
DbTick ==
    /\ DbTimers # {}
    /\ \A w \in DbTimers : w > db_now
    /\ db_now' = CHOOSE w \in DbTimers : \A v \in DbTimers : w <= v
    /\ UNCHANGED <<db_script, db_connected, db_main, db_probe, db_probes>>
    /\ UNCHANGED non_db_vars

DbNext ==
    \/ DbEnter
    \/ DbEntered
    \/ DbQueryDone
    \/ DbExited
    \/ \E sql \in SqlInputs : DbProbeCall(sql)
    \/ DbProbeDone
    \/ DbTick

DbSpec == DbInit /\ [][DbNext]_vars

\* C22: every `async with` block ends through __aexit__, exactly once, with
\* connected = False, whether the body ran to its end or raised; the
\* exception of a body that raised is pending while __aexit__ closes and
\* reaches the caller after the close, and a body that did not raise
\* returns normally.
C22_BlockAlwaysCloses ==
    /\ db_main.pc \in {"new", "entering", "query", "exiting"} => db_main.exits = 0
    /\ db_main.pc = "exiting" =>
        (db_connected /\ (db_main.exc # "None" <=> BodyRaises(db_script)))
    /\ db_main.pc \in {"returned", "raised"} =>
        /\ db_main.exits = 1
        /\ db_connected = FALSE
        /\ db_main.closed_at = db_main.wake
        /\ db_main.pc = "raised" <=> BodyRaises(db_script)
        /\ db_main.pc = "raised" => db_main.exc = "ValueError"

\* fetch_with_error: the body got its rows, raised ValueError, the
\* connection was closed and the caller has the exception
C22_Witness ==
    /\ db_main.pc = "raised"
    /\ db_main.exc = "ValueError"
    /\ db_main.results = <<SELECT_ROWS>>
    /\ db_main.exits = 1
    /\ db_connected = FALSE

\* C23: the connection is connected exactly from the end of __aenter__ to
\* the assignment in __aexit__; a query called while it is not connected
\* (before __aenter__ has completed, or after __aexit__ has closed) raises
\* RuntimeError at once and returns no rows, a query that returns rows was
\* called while connected, and no query call changes the connected flag.
C23_QueryNeedsConnection ==
    /\ [](db_main.pc # "idle" =>
            (db_connected <=> db_main.pc \in {"query", "exiting"}))
    /\ [](db_probe.pc # "idle" =>
            /\ db_probe.during \in {"new", "entering", "returned", "raised"} =>
                /\ db_probe.pc = "raised"
                /\ db_probe.exc = "RuntimeError"
                /\ db_probe.rows = <<>>
            /\ db_probe.pc = "raised" <=> ~db_probe.at_call
            /\ db_probe.pc = "returned" =>
                (db_probe.at_call /\ db_probe.rows = query_rows(db_probe.sql)))
    /\ [][(db_probe' # db_probe /\ db_main' = db_main) =>
            db_connected' = db_connected]_vars

\* a query called during __aenter__ raised, and so did one called after the
\* block, whose own query had returned rows, was closed
C23_Witness ==
    /\ db_probes = 2
    /\ db_probe.pc = "raised"
    /\ db_probe.during = "returned"
    /\ db_probe.rows = <<>>
    /\ Len(db_main.results) > 0
    /\ db_connected = FALSE

(***************************************************************************)
(* exercise_2_solution.py, pattern_create_task and pattern_as_completed:   *)
(* main runs them, in this order, after pattern_gather, each over          *)
(* coroutines process_data(item_id, delay) with the same ids and delays    *)
(* and on the same event loop, whose clock runs on from one to the next.   *)
(* pattern_create_task starts its coroutines as background tasks, sleeps   *)
(* 0.2 s and gathers them.  asyncio.as_completed schedules every           *)
(* coroutine; the for loop awaits the next finished one each time round.   *)
(***************************************************************************)
\* asyncio.sleep(0.2) in pattern_create_task
CREATE_TASK_WORK == 2

CtPositions == 1..Len(ct_task)

\* pattern_gather has returned and main calls pattern_create_task: the three
\* create_task calls schedule the coroutines, and the caller runs up to its
\* asyncio.sleep(0.2)
CtBegin ==
    /\ pg_pc = "returned"
    /\ ct_pc = "idle"
    /\ ct_now' = pg_now
    /\ ct_task' = [p \in 1..Len(pg_delays) |->
                      [pc |-> "created", wake |-> 0, result |-> None]]
    /\ ct_pc' = "sleep"
    /\ ct_wake' = pg_now + CREATE_TASK_WORK
    /\ UNCHANGED ct_results
    /\ UNCHANGED non_ct_vars

\* the tasks run in the order create_task scheduled them: the task at p
\* runs up to its asyncio.sleep(delay)
CtStart(p) ==
    /\ ct_task[p].pc = "created"
    /\ \A q \in 1..(p - 1) : ct_task[q].pc # "created"
    /\ ct_task' = [ct_task EXCEPT ![p].pc = "sleep", ![p].wake = ct_now + pg_delays[p]]
    /\ UNCHANGED <<ct_now, ct_pc, ct_wake, ct_results>>
    /\ UNCHANGED non_ct_vars

\* its sleep over, the task at p returns its dict
CtWake(p) ==
    /\ ct_task[p].pc = "sleep"
    /\ ct_task[p].wake <= ct_now
    /\ ct_task' = [ct_task EXCEPT ![p].pc = "done",
                                  ![p].result = pg_process_data(p, pg_delays[p])]
    /\ UNCHANGED <<ct_now, ct_pc, ct_wake, ct_results>>
    /\ UNCHANGED non_ct_vars

\* the caller's asyncio.sleep(0.2) ends: it goes on to await gather
CtWorkDone ==
    /\ ct_pc = "sleep"
    /\ ct_wake <= ct_now
    /\ ct_pc' = "await"
    /\ UNCHANGED <<ct_now, ct_task, ct_wake, ct_results>>
    /\ UNCHANGED non_ct_vars

\* the timers pending on the event loop
CtTimers ==
    {ct_task[p].wake : p \in {q \in CtPositions : ct_task[q].pc = "sleep"}}
    \cup (IF ct_pc = "sleep" THEN {ct_wake} ELSE {})

\* with nothing ready, the clock moves to the earliest pending timer
CtTick ==
    /\ \A p \in CtPositions : ct_task[p].pc # "created"
    /\ CtTimers # {}
    /\ \A w \in CtTimers : w > ct_now
    /\ ct_now' = CHOOSE w \in CtTimers : \A v \in CtTimers : w <= v
    /\ UNCHANGED <<ct_task, ct_pc, ct_wake, ct_results>>
    /\ UNCHANGED non_ct_vars

\* gather resumes the caller with the results by position
CtReturn ==
    /\ ct_pc = "await"
    /\ \A p \in CtPositions : ct_task[p].pc = "done"
    /\ ct_results' = [p \in CtPositions |-> ct_task[p].result]
    /\ ct_pc' = "returned"
    /\ UNCHANGED <<ct_now, ct_task, ct_wake>>
    /\ UNCHANGED non_ct_vars

CtNext ==
    \/ CtBegin
    \/ \E p \in CtPositions : CtStart(p)
    \/ \E p \in CtPositions : CtWake(p)
    \/ CtWorkDone
    \/ CtTick
    \/ CtReturn

AcPositions == 1..Len(ac_delays)

\* the k-th awaitable resolves to the coroutine created k-th
AsCompletedPickCreated(queue, k) == k

\* the k-th awaitable that as_completed yields resolves to the k-th
\* coroutine to finish
AsCompletedPick(queue, k) == queue[k]

\* pattern_create_task has returned and main calls pattern_as_completed:
\* the coroutines are created and handed to as_completed
AcBegin ==
    /\ ct_pc = "returned"
    /\ ac_pc = "idle"
    /\ ac_delays' = pg_delays
    /\ ac_now' = ct_now
    /\ ac_task' = [p \in 1..Len(pg_delays) |->
                      [pc |-> "created", wake |-> 0, result |-> None]]
    /\ ac_queue' = <<>>
    /\ ac_observed' = <<>>
    /\ ac_pc' = "loop"
    /\ UNCHANGED non_ac_vars

\* the coroutine at p runs up to its asyncio.sleep(delay)
AcStart(p) ==
    /\ ac_task[p].pc = "created"
    /\ ac_task' = [ac_task EXCEPT ![p].pc = "sleep", ![p].wake = ac_now + ac_delays[p]]
    /\ UNCHANGED <<ac_delays, ac_now, ac_queue, ac_observed, ac_pc>>
    /\ UNCHANGED non_ac_vars

\* its sleep over, the coroutine at p returns its dict and joins the queue
\* of finished coroutines
AcWake(p) ==
    /\ ac_task[p].pc = "sleep"
    /\ ac_task[p].wake <= ac_now
    /\ ac_task' = [ac_task EXCEPT ![p].pc = "done",
                                  ![p].result = pg_process_data(p, ac_delays[p])]
    /\ ac_queue' = Append(ac_queue, p)
    /\ UNCHANGED <<ac_delays, ac_now, ac_observed, ac_pc>>
    /\ UNCHANGED non_ac_vars

\* `result = await coro`: the loop is handed the next finished result
AcDeliver ==
    /\ ac_pc = "loop"
    /\ Len(ac_observed) < Len(ac_queue)
    /\ ac_task[AsCompletedPick(ac_queue, Len(ac_observed) + 1)].pc = "done"
    /\ ac_observed' = Append(ac_observed,
                             ac_task[AsCompletedPick(ac_queue, Len(ac_observed) + 1)].result)
    /\ UNCHANGED <<ac_delays, ac_now, ac_task, ac_queue, ac_pc>>
    /\ UNCHANGED non_ac_vars

AcCanStart == \E p \in AcPositions : ac_task[p].pc = "created"
AcDue(p) == ac_task[p].pc = "sleep" /\ ac_task[p].wake <= ac_now

\* with nothing ready, the clock moves to the earliest pending timer
AcTick ==
    /\ ~AcCanStart
    /\ \A p \in AcPositions : ~AcDue(p)
    /\ Len(ac_observed) = Len(ac_queue)
    /\ \E p \in AcPositions :
        /\ ac_task[p].pc = "sleep"
        /\ \A q \in AcPositions :
            ac_task[q].pc = "sleep" => ac_task[p].wake <= ac_task[q].wake
        /\ ac_now' = ac_task[p].wake
    /\ UNCHANGED <<ac_delays, ac_task, ac_queue, ac_observed, ac_pc>>
    /\ UNCHANGED non_ac_vars

\* as_completed is exhausted: the loop ends and pattern_as_completed returns
AcReturn ==
    /\ ac_pc = "loop"
    /\ Len(ac_observed) = Len(ac_delays)
    /\ ac_pc' = "returned"
    /\ UNCHANGED <<ac_delays, ac_now, ac_task, ac_queue, ac_observed>>
    /\ UNCHANGED non_ac_vars

AcNext ==
    \/ AcBegin
    \/ \E p \in AcPositions : AcStart(p)
    \/ \E p \in AcPositions : AcWake(p)
    \/ AcDeliver
    \/ AcTick
    \/ AcReturn

\* main: pattern_gather, then pattern_create_task, then pattern_as_completed
AcMainNext == PgNext \/ CtNext \/ AcNext

AsCompletedSpec == PgInit /\ [][AcMainNext]_vars

\* the ids of a sequence of result dicts
ResultIds(rs) == [k \in 1..Len(rs) |-> rs[k].id]

\* C24: as_completed delivers in completion order: the loop is handed every
\* result once, a shorter delay never after a longer one, which for delays
\* 1.0, 0.5, 1.5 is the order 2, 1, 3; gather over the same coroutines
\* returned the same results in creation order 1, 2, 3.
C24_AsCompletedInCompletionOrder ==
    /\ ac_pc \in {"loop", "returned"} =>
        /\ ResultIds(ac_observed) = SubSeq(ac_queue, 1, Len(ac_observed))
        /\ \A i, j \in 1..Len(ac_observed) :
            i < j => ac_delays[ac_observed[i].id] <= ac_delays[ac_observed[j].id]
        /\ ResultIds(pg_results) = [p \in PgPositions |-> p]
    /\ ac_pc = "returned" =>
        /\ Len(ac_observed) = Len(ac_delays)
        /\ {ac_observed[k].id : k \in 1..Len(ac_observed)} = AcPositions
        /\ \A k \in 1..Len(ac_observed) :
            ac_observed[k] = pg_results[ac_observed[k].id]
        /\ ac_delays = <<10, 5, 15>> =>
            /\ ResultIds(ac_observed) = <<2, 1, 3>>
            /\ ResultIds(pg_results) = <<1, 2, 3>>

\* over delays 1.0, 0.5 and 1.5 s the loop has seen items 2, 1, 3 where
\* gather returned 1, 2, 3; main is 4.5 s into its run
C24_Witness ==
    /\ ac_pc = "returned"
    /\ ac_now = 45
    /\ ac_delays = <<10, 5, 15>>
    /\ ResultIds(ac_observed) = <<2, 1, 3>>
    /\ ResultIds(pg_results) = <<1, 2, 3>>

(***************************************************************************)
(* 04-decorators/solution/exercise_5_solution.py: cache_with_ttl around    *)
(* expensive_operation, on a clock of whole seconds that never runs        *)
(* backwards.  A Python dict is a function on the set of its keys; the     *)
(* args of a call are a tuple.                                             *)
(***************************************************************************)
\* largest ttl handed to the decorator
MaxTtl == 5
\* largest argument of expensive_operation
MaxArg == 1
\* the clock stops here
MaxClock == 8

\* time.sleep(1) in expensive_operation
EXPENSIVE_SLEEP == 1

TtlValues == 0..MaxTtl
TtlArgs == {<<n>> : n \in 0..MaxArg}

\* d[k] = v
DictSet(d, k, v) == [x \in (DOMAIN d) \cup {k} |-> IF x = k THEN v ELSE d[x]]

\* expensive_operation(n), after its sleep: n ** 2
expensive_operation(n) == n ^ 2

\* a hit moves the stored timestamp to the time of the hit
cache_with_ttl_wrapperSliding(cache, args, clock, ttl) ==
    IF args \in DOMAIN cache /\ clock - cache[args].timestamp < ttl
    THEN [result |-> cache[args].result,
          cache |-> DictSet(cache, args,
                            [result |-> cache[args].result, timestamp |-> clock]),
          invoked |-> FALSE]
    ELSE LET result == expensive_operation(args[1]) IN
         [result |-> result,
          cache |-> DictSet(cache, args, [result |-> result, timestamp |-> clock]),
          invoked |-> TRUE]

\* wrapper(*args) with now = clock: what it returns, the cache it leaves and
\* whether it ran func
cache_with_ttl_wrapper(cache, args, clock, ttl) ==
    IF args \in DOMAIN cache /\ clock - cache[args].timestamp < ttl
    THEN [result |-> cache[args].result, cache |-> cache, invoked |-> FALSE]
    ELSE LET result == expensive_operation(args[1]) IN
         [result |-> result,
          cache |-> DictSet(cache, args, [result |-> result, timestamp |-> clock]),
          invoked |-> TRUE]

\* the function has been decorated with some ttl; the cache is empty
TtlInit ==
    /\ PipelineIdle
    /\ GatherIdle
    /\ IdleExcept("ttl")
    /\ ttl_ttl \in TtlValues
    /\ ttl_now = 0
    /\ ttl_cache = <<>>
    /\ ttl_computed = <<>>
    /\ ttl_last = [op |-> "decorate", args |-> <<>>, at |-> 0, result |-> 0,
                   invoked |-> FALSE, known |-> FALSE, since |-> 0]

\* one call of the wrapper; running func takes EXPENSIVE_SLEEP seconds
TtlCall(args) ==
    /\ ttl_last.op # "none"
    /\ ttl_now < MaxClock
    /\ LET w == cache_with_ttl_wrapper(ttl_cache, args, ttl_now, ttl_ttl)
           known == args \in DOMAIN ttl_computed
       IN  /\ ttl_cache' = w.cache
           /\ ttl_now' = IF w.invoked THEN ttl_now + EXPENSIVE_SLEEP ELSE ttl_now
           /\ ttl_computed' = IF w.invoked THEN DictSet(ttl_computed, args, ttl_now)
                              ELSE ttl_computed
           /\ ttl_last' = [op |-> "call", args |-> args, at |-> ttl_now,
                           result |-> w.result, invoked |-> w.invoked,
                           known |-> known,
                           since |-> IF known THEN ttl_now - ttl_computed[args] ELSE 0]
    /\ UNCHANGED ttl_ttl
    /\ UNCHANGED non_ttl_vars

\* a second passes between calls
TtlSleep ==
    /\ ttl_last.op # "none"
    /\ ttl_now < MaxClock
    /\ ttl_now' = ttl_now + 1
    /\ UNCHANGED <<ttl_ttl, ttl_cache, ttl_computed, ttl_last>>
    /\ UNCHANGED non_ttl_vars

TtlNext ==
    \/ \E args \in TtlArgs : TtlCall(args)
    \/ TtlSleep

TtlSpec == TtlInit /\ [][TtlNext]_vars

\* C25: a call made less than ttl after the last call that computed its
\* arguments returns the stored result without running the function; a call
\* made ttl or more after it, or the first call with those arguments, runs
\* the function and restarts the ttl from the time of that call; the
\* stored timestamp is always the time of the last computing call, and a
\* hit changes nothing in the cache.
C25_TtlExpiry ==
    /\ [](\A a \in DOMAIN ttl_cache :
            /\ a \in DOMAIN ttl_computed
            /\ ttl_cache[a].timestamp = ttl_computed[a]
            /\ ttl_cache[a].result = a[1] * a[1])
    /\ [](ttl_last.op = "call" =>
            /\ ttl_last.result = ttl_last.args[1] * ttl_last.args[1]
            /\ ttl_last.invoked <=>
                (~ttl_last.known \/ ttl_last.since >= ttl_ttl)
            /\ ttl_last.invoked => ttl_computed[ttl_last.args] = ttl_last.at)
    /\ [][(ttl_last' # ttl_last /\ ~ttl_last'.invoked) =>
            (ttl_cache' = ttl_cache /\ ttl_computed' = ttl_computed)]_vars

\* with ttl = 5, as in the source, a value is computed again by a call made
\* exactly 5 seconds after the call that last computed it
C25_Witness ==
    /\ ttl_ttl = 5
    /\ ttl_last.op = "call"
    /\ ttl_last.args = <<1>>
    /\ ttl_last.known
    /\ ttl_last.invoked
    /\ ttl_last.since = 5
    /\ ttl_last.result = 1

(***************************************************************************)
(* 04-decorators/solution/exercise_3_solution.py (and                      *)
(* examples/class_decorators.py): singleton.  The wrapped class is given   *)
(* by the argument tuples its __init__ accepts: Config and Database take   *)
(* none, another class may take any.  An instance is known by its serial   *)
(* number, the count of objects constructed up to and including it.        *)
(***************************************************************************)
\* most calls of get_instance
MaxSgCalls == 4

\* the argument tuples callers pass
SgArgs == {<<>>, <<1>>, <<2>>}
\* the classes wrapped: one whose __init__(self) takes no argument, as
\* Config and Database, and one that takes whatever it is given
SgClasses == {{<<>>}, SgArgs}

\* cls(*args) as the serial-th object: TypeError when __init__ does not
\* take args
construct(accepts, args, serial) ==
    IF args \in accepts
    THEN [raised |-> FALSE, instance |-> [serial |-> serial, init_args |-> args]]
    ELSE [raised |-> TRUE, instance |-> None]

\* no instances dict is consulted: every call constructs
get_instanceAlwaysNew(instances, accepts, args, created) ==
    LET c == construct(accepts, args, created + 1) IN
    IF c.raised
    THEN [raised |-> TRUE, value |-> None, instances |-> instances,
          created |-> created]
    ELSE [raised |-> FALSE, value |-> c.instance,
          instances |-> DictSet(instances, "cls", c.instance),
          created |-> created + 1]

\* get_instance(*args): what it returns or raises, the instances dict it
\* leaves, and the number of objects constructed so far
get_instance(instances, accepts, args, created) ==
    IF "cls" \notin DOMAIN instances
    THEN LET c == construct(accepts, args, created + 1) IN
         IF c.raised
         THEN [raised |-> TRUE, value |-> None, instances |-> instances,
               created |-> created]
         ELSE [raised |-> FALSE, value |-> c.instance,
               instances |-> DictSet(instances, "cls", c.instance),
               created |-> created + 1]
    ELSE [raised |-> FALSE, value |-> instances["cls"], instances |-> instances,
          created |-> created]

\* a class has been decorated; instances is empty
SgInit ==
    /\ PipelineIdle
    /\ GatherIdle
    /\ IdleExcept("sg")
    /\ sg_accepts \in SgClasses
    /\ sg_instances = <<>>
    /\ sg_created = 0
    /\ sg_log = <<>>

\* one call of the decorated class
SgCall(args) ==
    /\ sg_accepts # {}
    /\ Len(sg_log) < MaxSgCalls
    /\ LET r == get_instance(sg_instances, sg_accepts, args, sg_created) IN
        /\ sg_instances' = r.instances
        /\ sg_created' = r.created
        /\ sg_log' = Append(sg_log, [args |-> args, raised |-> r.raised,
                                     value |-> r.value])
    /\ UNCHANGED sg_accepts
    /\ UNCHANGED non_sg_vars

SgNext == \E args \in SgArgs : SgCall(args)

SgSpec == SgInit /\ [][SgNext]_vars

\* C26 as stated: whatever the calls and their arguments, the class is
\* instantiated at most once and every call returns the first instance.
C26_EveryCallReturnsFirst ==
    /\ sg_created <= 1
    /\ \A i \in 1..Len(sg_log) :
        /\ ~sg_log[i].raised
        /\ sg_log[i].value.serial = 1
        /\ sg_log[i].value = sg_log[1].value

\* C26, amended: whatever the calls and their arguments, the class is
\* instantiated at most once and every call that returns, returns that first
\* instance, built from the arguments of the call that constructed it; once
\* it exists no call fails and later arguments are ignored.  A call raises
\* only when no instance exists yet and the class does not take its
\* arguments, and it stores nothing; of a class that takes them, every call
\* returns the instance of the first.
C26_SingleInstance ==
    /\ sg_created <= 1
    /\ \A i \in 1..Len(sg_log) :
        /\ ~sg_log[i].raised =>
            /\ sg_log[i].value.serial = 1
            /\ "cls" \in DOMAIN sg_instances
            /\ sg_log[i].value = sg_instances["cls"]
            /\ \A j \in i..Len(sg_log) :
                ~sg_log[j].raised /\ sg_log[j].value = sg_log[i].value
            /\ (\A h \in 1..(i - 1) : sg_log[h].raised) =>
                sg_log[i].value.init_args = sg_log[i].args
        /\ sg_log[i].raised =>
            /\ sg_log[i].args \notin sg_accepts
            /\ \A h \in 1..i : sg_log[h].raised
    /\ sg_accepts = SgArgs =>
        \A i \in 1..Len(sg_log) :
            ~sg_log[i].raised /\ sg_log[i].value.init_args = sg_log[1].args

\* four calls with differing arguments have all returned the instance the
\* first call built
C26_Witness ==
    /\ Len(sg_log) = 4
    /\ sg_created = 1
    /\ sg_log[1].args = <<1>>
    /\ sg_log[2].args = <<>>
    /\ sg_log[4].args = <<2>>
    /\ \A i \in 1..4 : ~sg_log[i].raised /\ sg_log[i].value = sg_log[1].value
    /\ sg_log[4].value.init_args = <<1>>

(***************************************************************************)
(* 01-typing/solution/exercise_5_solution.py (and                          *)
(* examples/advanced_types.py): Stack over a Python list.  What a method   *)
(* returns is None, an int or a bool, tagged as such.  Beside the list,    *)
(* every push is numbered and the pushes not yet popped are kept as a set, *)
(* to say what a last-in first-out stack must return.                      *)
(***************************************************************************)
\* deepest stack
MaxStack == 3
\* largest element pushed
MaxElem == 2
\* most pushes in one run
MaxPushes == 4

StElems == 1..MaxElem

PyInt(n) == [tag |-> "int", val |-> n]
PyBool(b) == [tag |-> "bool", val |-> b]

\* list.pop(0): the oldest element is removed and returned
ListPopFront(items) ==
    IF items = <<>>
    THEN [raised |-> TRUE, exc |-> "IndexError", value |-> None, items |-> items]
    ELSE [raised |-> FALSE, exc |-> "None", value |-> PyInt(Head(items)),
          items |-> Tail(items)]

\* list.pop(): the last element is removed and returned, IndexError on an
\* empty list
ListPop(items) ==
    IF items = <<>>
    THEN [raised |-> TRUE, exc |-> "IndexError", value |-> None, items |-> items]
    ELSE [raised |-> FALSE, exc |-> "None", value |-> PyInt(items[Len(items)]),
          items |-> SubSeq(items, 1, Len(items) - 1)]

\* self._items[-1] if self._items else None
peek(items) == IF items # <<>> THEN PyInt(items[Len(items)]) ELSE None

\* len(self._items) == 0
is_empty(items) == Len(items) = 0

\* len(self._items)
size(items) == Len(items)

\* the push made last among those not yet popped
Newest(live) == CHOOSE e \in live : \A f \in live : f.serial <= e.serial
\* what a last-in first-out stack has on top
LifoTop(live) == IF live = {} THEN None ELSE PyInt(Newest(live).value)

\* Stack(): self._items = []
StInit ==
    /\ PipelineIdle
    /\ GatherIdle
    /\ IdleExcept("st")
    /\ st_items = <<>>
    /\ st_live = {}
    /\ st_pushes = 0
    /\ st_last = [op |-> "init", arg |-> 0, raised |-> FALSE, exc |-> "None",
                  ret |-> None, before |-> <<>>, top |-> None]

\* push(item)
StPush(x) ==
    /\ st_last.op # "none"
    /\ Len(st_items) < MaxStack
    /\ st_pushes < MaxPushes
    /\ st_items' = Append(st_items, x)
    /\ st_pushes' = st_pushes + 1
    /\ st_live' = st_live \cup {[serial |-> st_pushes + 1, value |-> x]}
    /\ st_last' = [op |-> "push", arg |-> x, raised |-> FALSE, exc |-> "None",
                   ret |-> None, before |-> st_items, top |-> LifoTop(st_live)]
    /\ UNCHANGED non_st_vars

\* pop()
StPop ==
    /\ st_last.op # "none"
    /\ LET r == ListPop(st_items) IN
        /\ st_items' = r.items
        /\ st_live' = IF st_live = {} THEN {} ELSE st_live \ {Newest(st_live)}
        /\ st_last' = [op |-> "pop", arg |-> 0, raised |-> r.raised, exc |-> r.exc,
                       ret |-> r.value, before |-> st_items,
                       top |-> LifoTop(st_live)]
    /\ UNCHANGED st_pushes
    /\ UNCHANGED non_st_vars

\* peek()
StPeek ==
    /\ st_last.op # "none"
    /\ st_last' = [op |-> "peek", arg |-> 0, raised |-> FALSE, exc |-> "None",
                   ret |-> peek(st_items), before |-> st_items,
                   top |-> LifoTop(st_live)]
    /\ UNCHANGED <<st_items, st_live, st_pushes>>
    /\ UNCHANGED non_st_vars

\* is_empty()
StIsEmpty ==
    /\ st_last.op # "none"
    /\ st_last' = [op |-> "is_empty", arg |-> 0, raised |-> FALSE, exc |-> "None",
                   ret |-> PyBool(is_empty(st_items)), before |-> st_items,
                   top |-> LifoTop(st_live)]
    /\ UNCHANGED <<st_items, st_live, st_pushes>>
    /\ UNCHANGED non_st_vars

\* size()
StSize ==
    /\ st_last.op # "none"
    /\ st_last' = [op |-> "size", arg |-> 0, raised |-> FALSE, exc |-> "None",
                   ret |-> PyInt(size(st_items)), before |-> st_items,
                   top |-> LifoTop(st_live)]
    /\ UNCHANGED <<st_items, st_live, st_pushes>>
    /\ UNCHANGED non_st_vars

StNext ==
    \/ \E x \in StElems : StPush(x)
    \/ StPop
    \/ StPeek
    \/ StIsEmpty
    \/ StSize

StSpec == StInit /\ [][StNext]_vars

\* C27: the stack is last-in first-out: a pop returns the element pushed
\* last among those not yet popped and the size goes down by one, a pop on
\* an empty stack raises IndexError and leaves it empty, peek returns the
\* top element, None when empty, and changes nothing, is_empty holds
\* exactly when size is 0, and the stack holds exactly the pushes not yet
\* popped.
C27_StackIsLifo ==
    /\ is_empty(st_items) <=> size(st_items) = 0
    /\ size(st_items) = Cardinality(st_live)
    /\ st_last.op = "push" =>
        /\ size(st_items) = Len(st_last.before) + 1
        /\ peek(st_items) = PyInt(st_last.arg)
    /\ (st_last.op = "pop" /\ st_last.before # <<>>) =>
        /\ ~st_last.raised
        /\ st_last.ret = st_last.top
        /\ size(st_items) = Len(st_last.before) - 1
        /\ st_items = SubSeq(st_last.before, 1, Len(st_last.before) - 1)
    /\ (st_last.op = "pop" /\ st_last.before = <<>>) =>
        /\ st_last.raised
        /\ st_last.exc = "IndexError"
        /\ st_last.ret = None
        /\ st_items = <<>>
    /\ st_last.op = "peek" =>
        /\ st_last.ret = st_last.top
        /\ st_last.before = <<>> <=> st_last.ret = None
        /\ st_items = st_last.before
    /\ st_last.op = "is_empty" =>
        /\ st_last.ret = PyBool(size(st_items) = 0)
        /\ st_items = st_last.before
    /\ st_last.op = "size" =>
        /\ st_last.ret = PyInt(Cardinality(st_live))
        /\ st_items = st_last.before

\* after pushes and pops in between, a pop has returned the 2 pushed last
\* and left the 1 pushed first
C27_Witness ==
    /\ st_last.op = "pop"
    /\ st_pushes = 4
    /\ st_last.before = <<1, 2>>
    /\ st_last.ret = PyInt(2)
    /\ st_items = <<1>>

(***************************************************************************)
(* 04-decorators/solution/exercise_2_solution.py: retry around             *)
(* unstable_call.  The wrapper is followed call by call of func; a failed  *)
(* call that is not the last is followed by time.sleep(delay).             *)
(***************************************************************************)
\* largest max_attempts handed to the decorator
MaxAttempts == 3
\* largest delay handed to the decorator, in seconds
MaxRetryDelay == 2

\* random.random() < 0.7 in unstable_call, in tenths
UNSTABLE_FAIL_RATE == 7

\* unstable_call(), r being the value drawn by random.random()
unstable_call(r) ==
    IF r < UNSTABLE_FAIL_RATE
    THEN [raised |-> TRUE, exc |-> "Failed", value |-> "None"]
    ELSE [raised |-> FALSE, exc |-> "None", value |-> "Success"]

\* the except clause tests attempt == max_attempts, which no iteration
\* reaches
IsLastAttemptOffByOne(attempt, max_attempts) == attempt = max_attempts

\* attempt == max_attempts - 1
IsLastAttempt(attempt, max_attempts) == attempt = max_attempts - 1

\* the decorated function has been called; the loop has not begun
RtInit ==
    /\ PipelineIdle
    /\ GatherIdle
    /\ IdleExcept("rt")
    /\ rt_max_attempts \in 0..MaxAttempts
    /\ rt_delay \in 0..MaxRetryDelay
    /\ rt_pc = "called"
    /\ rt_attempt = 0
    /\ rt_log = <<>>
    /\ rt_sleeps = 0
    /\ rt_slept = 0
    /\ rt_result = [kind |-> "none", call |-> 0, payload |-> "None"]

\* the end of the for loop without a return or raise: the wrapper returns
\* None
RtFallThrough == [kind |-> "None", call |-> 0, payload |-> "None"]

\* `for attempt in range(max_attempts)` is entered
RtStart ==
    /\ rt_pc = "called"
    /\ IF InRange(0, rt_max_attempts)
       THEN /\ rt_pc' = "try"
            /\ UNCHANGED rt_result
       ELSE /\ rt_pc' = "returned"
            /\ rt_result' = RtFallThrough
    /\ UNCHANGED <<rt_max_attempts, rt_delay, rt_attempt, rt_log, rt_sleeps, rt_slept>>
    /\ UNCHANGED non_rt_vars

\* one pass through the try: func returns and so does the wrapper, or func
\* raises and the except clause re-raises or goes to sleep
RtAttempt ==
    /\ rt_pc = "try"
    /\ \E r \in RandomDraws :
        LET c == unstable_call(r)
            k == Len(rt_log) + 1
        IN  /\ rt_log' = Append(rt_log, [draw |-> r, raised |-> c.raised])
            /\ IF ~c.raised
               THEN /\ rt_pc' = "returned"
                    /\ rt_result' = [kind |-> "value", call |-> k, payload |-> c.value]
                    /\ UNCHANGED rt_sleeps
               ELSE IF IsLastAttempt(rt_attempt, rt_max_attempts)
               THEN /\ rt_pc' = "raised"
                    /\ rt_result' = [kind |-> "exception", call |-> k, payload |-> c.exc]
                    /\ UNCHANGED rt_sleeps
               ELSE /\ rt_pc' = "sleep"
                    /\ rt_sleeps' = rt_sleeps + 1
                    /\ UNCHANGED rt_result
    /\ UNCHANGED <<rt_max_attempts, rt_delay, rt_attempt, rt_slept>>
    /\ UNCHANGED non_rt_vars

\* time.sleep(delay) returns and the loop moves on
RtSleepDone ==
    /\ rt_pc = "sleep"
    /\ rt_slept' = rt_slept + rt_delay
    /\ IF InRange(rt_attempt + 1, rt_max_attempts)
       THEN /\ rt_pc' = "try"
            /\ rt_attempt' = rt_attempt + 1
            /\ UNCHANGED rt_result
       ELSE /\ rt_pc' = "returned"
            /\ rt_result' = RtFallThrough
            /\ UNCHANGED rt_attempt
    /\ UNCHANGED <<rt_max_attempts, rt_delay, rt_log, rt_sleeps>>
    /\ UNCHANGED non_rt_vars

RtNext ==
    \/ RtStart
    \/ RtAttempt
    \/ RtSleepDone

RtSpec == RtInit /\ [][RtNext]_vars

\* the calls of func so far that raised
RtFailures == {i \in 1..Len(rt_log) : rt_log[i].raised}

\* C28: with max_attempts >= 1 the wrapper ends either by returning the
\* value of the first call of func that succeeded, which is the last call
\* made, or by re-raising the exception of call number max_attempts after
\* max_attempts failed calls; func is never called more than max_attempts
\* times, every failed call but the max_attempts-th is followed by one
\* sleep of delay seconds, and there is no sleep after the final attempt.
C28_RetryOutcome ==
    rt_max_attempts >= 1 =>
        /\ Len(rt_log) <= rt_max_attempts
        /\ \A i \in 1..(Len(rt_log) - 1) : rt_log[i].raised
        /\ rt_sleeps = Cardinality(RtFailures \ {rt_max_attempts})
        /\ rt_sleeps <= rt_max_attempts - 1
        /\ rt_slept = (rt_sleeps - (IF rt_pc = "sleep" THEN 1 ELSE 0)) * rt_delay
        /\ rt_pc = "sleep" => Len(rt_log) < rt_max_attempts
        /\ rt_pc = "returned" =>
            /\ rt_result.kind = "value"
            /\ rt_result.payload = "Success"
            /\ rt_result.call = Len(rt_log)
            /\ ~rt_log[Len(rt_log)].raised
            /\ rt_sleeps = Len(rt_log) - 1
        /\ rt_pc = "raised" =>
            /\ rt_result.kind = "exception"
            /\ rt_result.payload = "Failed"
            /\ rt_result.call = rt_max_attempts
            /\ Len(rt_log) = rt_max_attempts
            /\ RtFailures = 1..rt_max_attempts
            /\ rt_sleeps = rt_max_attempts - 1

\* unstable_call, wrapped with max_attempts = 3, has failed three times:
\* the third exception is out after two sleeps
C28_Witness ==
    /\ rt_max_attempts = 3
    /\ rt_delay = 1
    /\ rt_pc = "raised"
    /\ rt_result.call = 3
    /\ rt_sleeps = 2
    /\ rt_slept = 2

(***************************************************************************)
(* 04-decorators/examples/practical_decorators.py: cache around fibonacci. *)
(* The name fibonacci is bound to the wrapper, so the recursive calls of   *)
(* the function go through the cache too.  Beside the dict, the runs of    *)
(* the function are counted per argument tuple and the value of the first  *)
(* run is kept.                                                            *)
(***************************************************************************)
\* largest argument of fibonacci
MaxFib == 4
\* most calls of the wrapper from outside
MaxCacheCalls == 3

\* the wrapper never finds its arguments in the dict
CacheHitNever(cached, args) == FALSE

\* `args not in cached`, negated
CacheHit(cached, args) == args \in DOMAIN cached

\* one more run of func with args
CountRun(invoked, args) ==
    DictSet(invoked, args, IF args \in DOMAIN invoked THEN invoked[args] + 1 ELSE 1)

\* wrapper(n) and the body of fibonacci, which calls the wrapper; st holds
\* the dict cached and the two records of the runs; both give the value
\* returned and the st they leave
RECURSIVE cache_wrapper(_, _)
RECURSIVE fibonacci(_, _)
fibonacci(st, n) ==
    IF n < 2 THEN [value |-> n, st |-> st]
    ELSE LET a == cache_wrapper(st, n - 1)
             b == cache_wrapper(a.st, n - 2)
         IN  [value |-> a.value + b.value, st |-> b.st]

cache_wrapper(st, n) ==
    IF CacheHit(st.cached, <<n>>)
    THEN [value |-> st.cached[<<n>>], st |-> st]
    ELSE LET r == fibonacci([st EXCEPT !.invoked = CountRun(@, <<n>>)], n)
             stored == [r.st EXCEPT
                           !.cached = DictSet(@, <<n>>, r.value),
                           !.first = IF <<n>> \in DOMAIN @ THEN @
                                     ELSE DictSet(@, <<n>>, r.value)]
         IN  [value |-> stored.cached[<<n>>], st |-> stored]

\* fibonacci as defined, without the decorator
RECURSIVE PlainFibonacci(_)
PlainFibonacci(n) ==
    IF n < 2 THEN n ELSE PlainFibonacci(n - 1) + PlainFibonacci(n - 2)

\* fibonacci has been decorated; cached is empty
ChInit ==
    /\ PipelineIdle
    /\ GatherIdle
    /\ IdleExcept("ch")
    /\ ch_cached = <<>>
    /\ ch_invoked = <<>>
    /\ ch_first = <<>>
    /\ ch_log = <<>>

\* one call fibonacci(n) from outside, recursion included
ChCall(n) ==
    /\ Len(ch_log) < MaxCacheCalls
    /\ LET r == cache_wrapper([cached |-> ch_cached, invoked |-> ch_invoked,
                               first |-> ch_first], n)
       IN  /\ ch_cached' = r.st.cached
           /\ ch_invoked' = r.st.invoked
           /\ ch_first' = r.st.first
           /\ ch_log' = Append(ch_log, [args |-> <<n>>, value |-> r.value])
    /\ UNCHANGED non_ch_vars

ChNext == \E n \in 0..MaxFib : ChCall(n)

ChSpec == ChInit /\ [][ChNext]_vars

\* C29: the function runs at most once for each argument tuple, the dict
\* holds for each tuple the value its first run returned, every call from
\* outside returned that value, which is what the undecorated function
\* returns, and an entry once stored is never removed or changed.
C29_CacheComputesOnce ==
    /\ [](\A a \in DOMAIN ch_invoked : ch_invoked[a] <= 1)
    /\ [](/\ DOMAIN ch_cached = DOMAIN ch_invoked
          /\ DOMAIN ch_cached = DOMAIN ch_first
          /\ \A a \in DOMAIN ch_cached :
                /\ ch_cached[a] = ch_first[a]
                /\ ch_cached[a] = PlainFibonacci(a[1]))
    /\ [](\A k \in 1..Len(ch_log) :
            /\ ch_log[k].args \in DOMAIN ch_first
            /\ ch_log[k].value = ch_first[ch_log[k].args]
            /\ ch_log[k].value = PlainFibonacci(ch_log[k].args[1]))
    /\ [][\A a \in DOMAIN ch_cached :
            a \in DOMAIN ch_cached' /\ ch_cached'[a] = ch_cached[a]]_vars

\* fibonacci(4) called twice, then fibonacci(3): 3, 3 and 2, with one run
\* of the function for each of 0 .. 4
C29_Witness ==
    /\ Len(ch_log) = 3
    /\ ch_log[1] = [args |-> <<4>>, value |-> 3]
    /\ ch_log[2] = [args |-> <<4>>, value |-> 3]
    /\ ch_log[3] = [args |-> <<3>>, value |-> 2]
    /\ DOMAIN ch_invoked = {<<n>> : n \in 0..4}
    /\ \A a \in DOMAIN ch_invoked : ch_invoked[a] = 1
====
